---- MODULE Spec2Model ----
(***************************************************************************)
(* Model of the VIC cipher pipeline of the cryptology library              *)
(* (c/src/classical/substitution/composite/vic.c and the shared square     *)
(* builders of polygraphic/monoalphabetic_squares.c).                      *)
(*                                                                         *)
(* A C string is a sequence of byte values 1..255 (the terminating NUL is  *)
(* not stored).  A pointer argument that may be NULL is <<>> (NULL) or the *)
(* one-element sequence <<s>> holding the string s it points to.           *)
(***************************************************************************)
EXTENDS Integers, Sequences, FiniteSets, TLC

----------------------------------------------------------------------------
(* Bounds of the explored inputs *)

MaxTextLen == 2
MaxPasses == 3
MaxStreamLen == 4
MaxKeyLen == 3
MaxChaoLen == 3
\* how far the long texts reach on each side of half a buffer
MaxSlack == 3
\* the largest alphabet_size handed to a permutation on its own
MaxAlphabetSize == 16
\* the longest key asked of a key generator
MaxGenLen == 2

----------------------------------------------------------------------------
(* Strings and <ctype.h> in the C locale *)

NULL == <<>>
Ptr(s) == <<s>>
Deref(p) == p[1]

Range(a, b) == [i \in 1..(b - a + 1) |-> a + i - 1]

Take(s, n) == IF n >= Len(s) THEN s ELSE IF n <= 0 THEN <<>> ELSE SubSeq(s, 1, n)

Min(a, b) == IF a < b THEN a ELSE b

elements(seq) == {seq[i] : i \in 1..Len(seq)}

isalpha(c) == (c >= 65 /\ c <= 90) \/ (c >= 97 /\ c <= 122)
isdigit(c) == c >= 48 /\ c <= 57
tolower(c) == IF c >= 65 /\ c <= 90 THEN c + 32 ELSE c
toupper(c) == IF c >= 97 /\ c <= 122 THEN c - 32 ELSE c

\* strchr(s, c): 1-based position of the first c in s, 0 when absent
strchr(s, c) ==
    IF \E i \in 1..Len(s) : s[i] = c
    THEN CHOOSE i \in 1..Len(s) : s[i] = c /\ \A j \in 1..(i - 1) : s[j] # c
    ELSE 0

\* a plain char is signed: bytes 128..255 compare as negative values
SignedChar(b) == IF b >= 128 THEN b - 256 ELSE b

\* the C string held by a buffer: the bytes before the first NUL
CStr(s) == IF strchr(s, 0) = 0 THEN s ELSE Take(s, strchr(s, 0) - 1)

\* a loop that appends one byte per test of pos < result_size - 1 writes
\* the first result_size - 1 bytes of what it would write unbounded
Truncate(s, result_size) == Take(s, result_size - 1)

to_upper_string(s) == [i \in 1..Len(s) |-> toupper(s[i])]

----------------------------------------------------------------------------
(* Constants of vic.h *)

DEFAULT_VIC_ALPHABET == Range(65, 90) \o Range(48, 57)

\* "ABCÇDEFGĞHIİJKLMNOÖPRSŞTUÜVYZ0123456" in UTF-8
TURKISH_VIC_ALPHABET ==
    <<65, 66, 67, 195, 135, 68, 69, 70, 71, 196, 158, 72, 73, 196, 176,
      74, 75, 76, 77, 78, 79, 195, 150, 80, 82, 83, 197, 158, 84, 85,
      195, 156, 86, 89, 90, 48, 49, 50, 51, 52, 53, 54>>

\* "ADFGVX"
VIC_LETTERS == <<65, 68, 70, 71, 86, 88>>

BufSize == 1024

\* language/alphabet selection shared by every public entry point
use_alphabet(alphabet, language) ==
    IF alphabet # NULL THEN Deref(alphabet)
    ELSE IF language = "turkish" THEN TURKISH_VIC_ALPHABET
    ELSE DEFAULT_VIC_ALPHABET

----------------------------------------------------------------------------
(* UTF-8 helpers *)

\* number of bytes the lead byte b announces
utf8_width(b) ==
    IF b < 128 THEN 1
    ELSE IF b >= 192 /\ b <= 223 THEN 2
    ELSE IF b >= 224 /\ b <= 239 THEN 3
    ELSE IF b >= 240 /\ b <= 247 THEN 4
    ELSE 1

RECURSIVE utf8_strlen_from(_, _)
utf8_strlen_from(str, p) ==
    IF p > Len(str) THEN 0
    ELSE 1 + utf8_strlen_from(str, p + utf8_width(str[p]))

utf8_strlen(str) == utf8_strlen_from(str, 1)

\* byte position (1-based) of the character with 0-based index, 0 if none
RECURSIVE utf8_pos_from(_, _, _)
utf8_pos_from(str, p, index) ==
    IF p > Len(str) THEN 0
    ELSE IF index = 0 THEN p
    ELSE utf8_pos_from(str, p + utf8_width(str[p]), index - 1)

\* bytes of the character starting at byte position p; <<>> for a byte that
\* is no lead byte (the C code then returns -1 / 0 bytes)
utf8_bytes_at(str, p) ==
    LET b == str[p] IN
    IF b < 128 \/ (b >= 192 /\ b <= 247)
    THEN SubSeq(str, p, Min(Len(str), p + utf8_width(b) - 1))
    ELSE <<>>

utf8_char_at(str, index) ==
    LET p == utf8_pos_from(str, 1, index) IN
    IF p = 0 THEN <<>> ELSE utf8_bytes_at(str, p)

----------------------------------------------------------------------------
(* Square and checkerboard builders of vic.c *)

\* rows 0..rows-1 of a grid laid out row-major from cells, width cells per
\* row as far as cells reach, a newline after every row but the last
RECURSIVE format_grid(_, _, _, _)
format_grid(cells, row, rows, width) ==
    IF row >= rows THEN <<>>
    ELSE LET from == row * width + 1
             to == Min(Len(cells), row * width + width)
             line == IF from > to THEN <<>> ELSE SubSeq(cells, from, to)
         IN line \o (IF row < rows - 1 THEN <<10>> ELSE <<>>)
                 \o format_grid(cells, row + 1, rows, width)

\* the 36 first UTF-8 characters of the alphabet, each as its bytes
RECURSIVE standard_cells(_, _)
standard_cells(alphabet, char_index) ==
    IF char_index >= 36 THEN <<>>
    ELSE <<utf8_char_at(alphabet, char_index)>> \o standard_cells(alphabet, char_index + 1)

RECURSIVE Flatten(_)
Flatten(ss) == IF ss = <<>> THEN <<>> ELSE Head(ss) \o Flatten(Tail(ss))

RECURSIVE format_rows(_, _, _, _)
format_rows(cells, row, rows, width) ==
    IF row >= rows THEN <<>>
    ELSE Flatten(SubSeq(cells, row * width + 1, row * width + width))
         \o (IF row < rows - 1 THEN <<10>> ELSE <<>>)
         \o format_rows(cells, row + 1, rows, width)

create_standard_polybius_square(alphabet, result_size) ==
    IF utf8_strlen(alphabet) < 36 THEN [ret |-> -1, out |-> <<>>]
    ELSE [ret |-> 0,
          out |-> Truncate(format_rows(standard_cells(alphabet, 0), 0, 6, 6), result_size)]

\* first loop: the keyword's bytes, lower-cased, that occur in the alphabet
\* and were not seen before, at most limit of them
RECURSIVE keyword_scan(_, _, _, _, _)
keyword_scan(keyword, alphabet, i, unique, limit) ==
    IF i > Len(keyword) \/ Len(unique) >= limit THEN unique
    ELSE LET c == tolower(keyword[i]) IN
         IF strchr(alphabet, c) # 0 /\ strchr(unique, c) = 0
         THEN keyword_scan(keyword, alphabet, i + 1, Append(unique, c), limit)
         ELSE keyword_scan(keyword, alphabet, i + 1, unique, limit)

\* second loop: the alphabet's bytes not seen before, up to limit in all
RECURSIVE alphabet_scan(_, _, _, _)
alphabet_scan(alphabet, i, unique, limit) ==
    IF i > Len(alphabet) \/ Len(unique) >= limit THEN unique
    ELSE IF strchr(unique, alphabet[i]) = 0
         THEN alphabet_scan(alphabet, i + 1, Append(unique, alphabet[i]), limit)
         ELSE alphabet_scan(alphabet, i + 1, unique, limit)

keyword_unique(keyword, alphabet, limit) ==
    alphabet_scan(alphabet, 1, keyword_scan(keyword, alphabet, 1, <<>>, limit), limit)

create_keyword_polybius_square(keyword, alphabet, result_size) ==
    IF utf8_strlen(alphabet) < 36 THEN [ret |-> -1, out |-> <<>>]
    ELSE [ret |-> 0,
          out |-> Truncate(format_grid(keyword_unique(keyword, alphabet, 36), 0, 6, 6),
                           result_size)]

create_straddling_checkerboard(keyword, alphabet, result_size) ==
    IF keyword = NULL THEN [ret |-> -1, out |-> <<>>]
    ELSE IF utf8_strlen(alphabet) < 30 THEN [ret |-> -1, out |-> <<>>]
    ELSE [ret |-> 0,
          out |-> Truncate(format_grid(keyword_unique(Deref(keyword), alphabet, 30), 0, 3, 10),
                           result_size)]

----------------------------------------------------------------------------
(* Shared monoalphabetic square generation (monoalphabetic_squares.c) *)

MAX_ALPHABET_SIZE == 64
MAX_SQUARE_SIZE == 36

\* the % of C on int: the result takes the sign of the dividend
CRem(a, b) == IF a >= 0 THEN a % b ELSE 0 - ((0 - a) % b)

\* a value stored into a char
ToByte(v) == v % 256

RECURSIVE gcd(_, _)
gcd(x, y) == IF y = 0 THEN x ELSE gcd(y, CRem(x, y))

\* strstr(s, sub): 1-based position of the first occurrence of sub, 0 if none
strstr(s, sub) ==
    LET hits == {i \in 1..(Len(s) - Len(sub) + 1) : SubSeq(s, i, i + Len(sub) - 1) = sub}
    IN IF hits = {} THEN 0 ELSE CHOOSE i \in hits : \A j \in hits : i <= j

\* position of the first c at or after position from, 0 if none
strchr_from(s, from, c) ==
    LET hits == {i \in from..Len(s) : s[i] = c}
    IN IF hits = {} THEN 0 ELSE CHOOSE i \in hits : \A j \in hits : i <= j

isspace(c) == c = 32 \/ (c >= 9 /\ c <= 13)

RECURSIVE atoi_digits(_, _, _)
atoi_digits(s, p, acc) ==
    IF p > Len(s) \/ ~isdigit(s[p]) THEN acc
    ELSE atoi_digits(s, p + 1, acc * 10 + (s[p] - 48))

RECURSIVE atoi_from(_, _)
atoi_from(s, p) ==
    IF p > Len(s) THEN 0
    ELSE IF isspace(s[p]) THEN atoi_from(s, p + 1)
    ELSE IF s[p] = 45 THEN 0 - atoi_digits(s, p + 1, 0)
    ELSE IF s[p] = 43 THEN atoi_digits(s, p + 1, 0)
    ELSE atoi_digits(s, p, 0)

\* the number after the first ':' that follows the first occurrence of name
\* in the parameter string, or dflt
mono_param(mono_params, name, dflt) ==
    IF mono_params = NULL THEN dflt
    ELSE LET s == Deref(mono_params)
             start == strstr(s, name)
             colon == IF start = 0 THEN 0 ELSE strchr_from(s, start, 58)
         IN IF colon = 0 THEN dflt ELSE atoi_from(s, colon + 1)

\* the bytes of the upper-cased alphabet that are letters
letters_of(alphabet_upper) == SelectSeq(alphabet_upper, isalpha)

create_caesar_alphabet(alphabet, shift, result_size) ==
    IF result_size < MAX_ALPHABET_SIZE THEN [ret |-> -1, out |-> <<>>]
    ELSE LET alphabet_upper == to_upper_string(Take(alphabet, MAX_ALPHABET_SIZE - 1))
             shifted_char(c) == ToByte(CRem(c - 65 + shift, 26) + 65)
         IN [ret |-> 0,
             out |-> Truncate([i \in 1..Len(letters_of(alphabet_upper)) |->
                                 shifted_char(letters_of(alphabet_upper)[i])], result_size)]

create_atbash_alphabet(alphabet, result_size) ==
    IF result_size < MAX_ALPHABET_SIZE THEN [ret |-> -1, out |-> <<>>]
    ELSE LET alphabet_upper == to_upper_string(Take(alphabet, MAX_ALPHABET_SIZE - 1))
             reversed_char(c) == 90 - (c - 65)
         IN [ret |-> 0,
             out |-> Truncate([i \in 1..Len(letters_of(alphabet_upper)) |->
                                 reversed_char(letters_of(alphabet_upper)[i])], result_size)]

create_affine_alphabet(alphabet, a, b, result_size) ==
    IF result_size < MAX_ALPHABET_SIZE THEN [ret |-> -1, out |-> <<>>]
    ELSE LET alphabet_upper == to_upper_string(Take(alphabet, MAX_ALPHABET_SIZE - 1))
             alphabet_len == Len(alphabet_upper)
             encrypted(c) == alphabet_upper[CRem(a * (c - 65) + b, alphabet_len) + 1]
         IN IF gcd(a, alphabet_len) # 1 THEN [ret |-> -1, out |-> <<>>]
            ELSE [ret |-> 0,
                  out |-> Truncate([i \in 1..Len(letters_of(alphabet_upper)) |->
                                      encrypted(letters_of(alphabet_upper)[i])], result_size)]

\* "ABCÇDEFGĞHIİJKLMNOÖPRSŞTUÜVYZ": the Turkish alphabet without its digits
TURKISH_LETTERS == Take(TURKISH_VIC_ALPHABET, 35)

alphabet_to_square(transformed_alphabet, original_alphabet, result_size) ==
    IF result_size < MAX_SQUARE_SIZE THEN [ret |-> -1, out |-> <<>>]
    ELSE LET copied == Take(transformed_alphabet, MAX_ALPHABET_SIZE - 1)
             original_copy == to_upper_string(Take(original_alphabet, MAX_ALPHABET_SIZE - 1))
             english == original_copy = Range(65, 90)
             alphabet_copy == IF english
                              THEN [i \in 1..Len(copied) |-> IF copied[i] = 74 THEN 73 ELSE copied[i]]
                              ELSE copied
             size == IF english THEN 5
                     ELSE IF original_copy = TURKISH_LETTERS THEN 6
                     ELSE IF Len(alphabet_copy) <= 25 THEN 5 ELSE 6
             first == IF alphabet_copy = <<>> THEN 0 ELSE alphabet_copy[1]
             padded == [i \in 1..(size * size) |->
                           IF i <= Len(alphabet_copy) THEN alphabet_copy[i] ELSE first]
         IN [ret |-> 0, out |-> CStr(Truncate(format_grid(padded, 0, size, size), result_size))]

\* the VIC entry point passes only "caesar", "atbash" and "affine" here
create_monoalphabetic_square(square_type, alphabet, mono_params, result_size) ==
    IF result_size < MAX_SQUARE_SIZE THEN [ret |-> -1, out |-> <<>>]
    ELSE LET transformed ==
                 IF square_type = "caesar"
                 THEN create_caesar_alphabet(alphabet,
                          mono_param(mono_params, <<115, 104, 105, 102, 116>>, 3),
                          MAX_ALPHABET_SIZE)
                 ELSE IF square_type = "atbash"
                 THEN create_atbash_alphabet(alphabet, MAX_ALPHABET_SIZE)
                 ELSE IF square_type = "affine"
                 THEN create_affine_alphabet(alphabet, mono_param(mono_params, <<97>>, 1),
                                             mono_param(mono_params, <<98>>, 0), MAX_ALPHABET_SIZE)
                 ELSE [ret |-> -1, out |-> <<>>]
         IN IF transformed.ret # 0 THEN [ret |-> -1, out |-> <<>>]
            ELSE alphabet_to_square(transformed.out, alphabet, result_size)

vic_produce_polybius_square(square_type, keyword, alphabet, mono_params, language, result_size) ==
    IF result_size = 0 THEN [ret |-> -1, out |-> <<>>]
    ELSE LET use == use_alphabet(alphabet, language) IN
         IF utf8_strlen(use) < 36 THEN [ret |-> -1, out |-> <<>>]
         ELSE IF square_type = "standard" THEN create_standard_polybius_square(use, result_size)
         ELSE IF square_type \in {"caesar", "atbash", "affine"}
              THEN create_monoalphabetic_square(square_type, use, mono_params, result_size)
         ELSE IF square_type = "keyword"
              THEN create_keyword_polybius_square(
                       IF keyword # NULL THEN Deref(keyword) ELSE <<83, 69, 67, 82, 69, 84>>,
                       use, result_size)
         ELSE [ret |-> -1, out |-> <<>>]

vic_produce_checkerboard(keyword, alphabet, language, result_size) ==
    IF keyword = NULL \/ result_size = 0 THEN [ret |-> -1, out |-> <<>>]
    ELSE create_straddling_checkerboard(keyword, use_alphabet(alphabet, language), result_size)

----------------------------------------------------------------------------
(* Substitution and fractionation stage *)

\* walk the square (rows separated by newlines) to the first character whose
\* bytes equal target_char
RECURSIVE find_char_from(_, _, _, _, _)
find_char_from(square, target_char, p, current_row, current_col) ==
    IF p > Len(square) THEN [found |-> FALSE, row |-> 0, col |-> 0]
    ELSE IF square[p] = 10 THEN find_char_from(square, target_char, p + 1, current_row + 1, 0)
    ELSE IF p + Len(target_char) - 1 <= Len(square)
            /\ SubSeq(square, p, p + Len(target_char) - 1) = target_char
         THEN [found |-> TRUE, row |-> current_row, col |-> current_col]
    ELSE find_char_from(square, target_char, p + utf8_width(square[p]),
                        current_row, current_col + 1)

find_char_in_square(square, target_char) == find_char_from(square, target_char, 1, 0, 0)

RECURSIVE get_char_from(_, _, _, _, _, _)
get_char_from(square, row, col, p, current_row, current_col) ==
    IF p > Len(square) THEN <<>>
    ELSE IF square[p] = 10 THEN get_char_from(square, row, col, p + 1, current_row + 1, 0)
    ELSE IF current_row = row /\ current_col = col THEN utf8_bytes_at(square, p)
    ELSE get_char_from(square, row, col, p + utf8_width(square[p]),
                       current_row, current_col + 1)

\* the bytes of the character at (row, col), <<>> when there is none
get_char_from_square(square, row, col) == get_char_from(square, row, col, 1, 0, 0)

\* vic_chars[index] for a 0-based index; index 6 reads the terminating NUL
vic_char(index) == IF index < 6 THEN VIC_LETTERS[index + 1] ELSE 0

\* the loop tests pos < result_size - 1 once per character and then writes
\* two bytes; a character that is not in the square writes nothing
RECURSIVE substitute_from_text(_, _, _, _, _)
substitute_from_text(text, square, p, result, result_size) ==
    IF p > Len(text) \/ ~(Len(result) < result_size - 1) THEN result
    ELSE LET bytes == utf8_width(text[p])
             utf8_char == SubSeq(text, p, Min(Len(text), p + bytes - 1))
             at == find_char_in_square(square, utf8_char)
         IN substitute_from_text(text, square, p + bytes,
                IF at.found THEN result \o <<vic_char(at.row), vic_char(at.col)>> ELSE result,
                result_size)

substitute_to_polybius(text, square, result_size) ==
    [ret |-> 0, out |-> substitute_from_text(text, square, 1, <<>>, result_size)]

RECURSIVE substitute_from_pairs(_, _, _)
substitute_from_pairs(pairs, square, i) ==
    IF i + 1 > Len(pairs) THEN <<>>
    ELSE LET row == strchr(VIC_LETTERS, pairs[i]) - 1
             col == strchr(VIC_LETTERS, pairs[i + 1]) - 1
         IN (IF row >= 0 /\ col >= 0 THEN get_char_from_square(square, row, col) ELSE <<>>)
            \o substitute_from_pairs(pairs, square, i + 2)

substitute_from_polybius(pairs, square, result_size) ==
    [ret |-> 0, out |-> Truncate(substitute_from_pairs(pairs, square, 1), result_size)]

pairs_to_digits(pairs, result_size) ==
    LET kept == SelectSeq(pairs, LAMBDA c : strchr(VIC_LETTERS, c) # 0)
    IN [ret |-> 0,
        out |-> Truncate([i \in 1..Len(kept) |-> 48 + (strchr(VIC_LETTERS, kept[i]) - 1)],
                         result_size)]

digits_to_pairs(digits, result_size) ==
    LET kept == SelectSeq(digits, LAMBDA c : isdigit(c) /\ c - 48 < 6)
    IN [ret |-> 0,
        out |-> Truncate([i \in 1..Len(kept) |-> VIC_LETTERS[kept[i] - 48 + 1]], result_size)]

----------------------------------------------------------------------------
(* Checkerboard remapping stage *)

\* strtok(checkerboard, "\n"): the non-empty runs between newlines
RECURSIVE strtok_lines(_, _, _)
strtok_lines(s, p, current) ==
    IF p > Len(s) THEN (IF current = <<>> THEN <<>> ELSE <<current>>)
    ELSE IF s[p] = 10
         THEN (IF current = <<>> THEN <<>> ELSE <<current>>) \o strtok_lines(s, p + 1, <<>>)
    ELSE strtok_lines(s, p + 1, Append(current, s[p]))

\* at most three lines are kept
checkerboard_lines(checkerboard) == Take(strtok_lines(checkerboard, 1, <<>>), 3)

\* i is the 1-based position of digits[i] of the C code
RECURSIVE digits_to_letters_from(_, _, _, _, _)
digits_to_letters_from(digits, lines, i, result, result_size) ==
    IF i > Len(digits) \/ ~(Len(result) < result_size - 1) THEN result
    ELSE LET line_count == Len(lines)
             row == digits[i] - 48
             col == IF i + 1 <= Len(digits) THEN digits[i + 1] - 48 ELSE -1
             digit == digits[i] - 48
         IN IF i + 1 <= Len(digits) /\ 1 <= row /\ row < line_count
               /\ 0 <= col /\ col < Len(lines[row + 1])
            THEN digits_to_letters_from(digits, lines, i + 2,
                     Append(result, lines[row + 1][col + 1]), result_size)
            ELSE digits_to_letters_from(digits, lines, i + 1,
                     IF line_count > 0 /\ 0 <= digit /\ digit < Len(lines[1])
                     THEN Append(result, lines[1][digit + 1]) ELSE result,
                     result_size)

digits_to_letters(digits, checkerboard, result_size) ==
    [ret |-> 0,
     out |-> digits_to_letters_from(digits, checkerboard_lines(checkerboard), 1, <<>>, result_size)]

\* a coder that writes the row digit for the cells of row 0 as well
letter_code_two_digits(lines, letter) ==
    LET cells == UNION {{<<row, col>> : col \in {c \in 0..(Len(lines[row + 1]) - 1) :
                                                      lines[row + 1][c + 1] = letter}} :
                        row \in 0..(Len(lines) - 1)}
    IN IF cells = {} THEN <<>>
       ELSE LET rc == CHOOSE x \in cells :
                         \A y \in cells : x[1] < y[1] \/ (x[1] = y[1] /\ x[2] <= y[2])
            IN <<48 + rc[1], 48 + rc[2]>>

\* the digit code of the first cell, in row-major order, that holds letter
letter_code(lines, letter) ==
    LET cells == UNION {{<<row, col>> : col \in {c \in 0..(Len(lines[row + 1]) - 1) :
                                                      lines[row + 1][c + 1] = letter}} :
                        row \in 0..(Len(lines) - 1)}
    IN IF cells = {} THEN <<>>
       ELSE LET rc == CHOOSE x \in cells :
                         \A y \in cells : x[1] < y[1] \/ (x[1] = y[1] /\ x[2] <= y[2])
            IN IF rc[1] = 0 THEN <<48 + rc[2]>> ELSE <<48 + rc[1], 48 + rc[2]>>

\* the loop tests pos < result_size - 1 once per letter and then writes one
\* or two bytes
RECURSIVE letters_to_digits_from(_, _, _, _, _)
letters_to_digits_from(letters, lines, i, result, result_size) ==
    IF i > Len(letters) \/ ~(Len(result) < result_size - 1) THEN result
    ELSE letters_to_digits_from(letters, lines, i + 1,
                                result \o letter_code(lines, letters[i]), result_size)

letters_to_digits(letters, checkerboard, result_size) ==
    [ret |-> 0,
     out |-> letters_to_digits_from(letters, checkerboard_lines(checkerboard), 1, <<>>, result_size)]

----------------------------------------------------------------------------
(* Columnar transposition stage *)

Swap(order, i, j) == [order EXCEPT ![i] = order[j], ![j] = order[i]]

\* the exchange sort of the key order; i and j are 1-based positions in
\* key_order, whose elements are 0-based column numbers
RECURSIVE sort_inner(_, _, _, _)
sort_inner(key_order, key, i, j) ==
    IF j > Len(key) THEN key_order
    ELSE sort_inner(IF SignedChar(key[key_order[i] + 1]) > SignedChar(key[key_order[j] + 1])
                    THEN Swap(key_order, i, j) ELSE key_order,
                    key, i, j + 1)

RECURSIVE sort_outer(_, _, _)
sort_outer(key_order, key, i) ==
    IF i > Len(key) - 1 THEN key_order
    ELSE sort_outer(sort_inner(key_order, key, i, i + 1), key, i + 1)

sorted_key_order(key) == sort_outer([i \in 1..Len(key) |-> i - 1], key, 1)

\* encrypt: the characters of column col_idx of the row-major grid
column_of(text, cols, col_idx) ==
    LET count == IF col_idx < Len(text) THEN ((Len(text) - 1 - col_idx) \div cols) + 1 ELSE 0
    IN [row \in 1..count |-> text[(row - 1) * cols + col_idx + 1]]

RECURSIVE read_columns(_, _, _)
read_columns(text, key_order, k) ==
    IF k > Len(key_order) THEN <<>>
    ELSE column_of(text, Len(key_order), key_order[k]) \o read_columns(text, key_order, k + 1)

\* col_len with the boundary column counted among the long ones
col_len_off_by_one(text_len, cols, rows, col_idx) ==
    IF text_len % cols = 0 THEN rows
    ELSE IF col_idx > text_len % cols THEN rows - 1 ELSE rows

\* decrypt: length of column col_idx
col_len(text_len, cols, rows, col_idx) ==
    IF text_len % cols = 0 THEN rows
    ELSE IF col_idx >= text_len % cols THEN rows - 1 ELSE rows

\* decrypt: cut the text into the columns, in key order; grid maps a 0-based
\* column number to its string
RECURSIVE distribute(_, _, _, _, _, _)
distribute(text, key_order, rows, k, text_pos, grid) ==
    IF k > Len(key_order) THEN grid
    ELSE LET col_idx == key_order[k]
             len == col_len(Len(text), Len(key_order), rows, col_idx)
             upto == Min(Len(text), text_pos + len)
         IN distribute(text, key_order, rows, k + 1, upto,
                       [grid EXCEPT ![col_idx] = SubSeq(text, text_pos + 1, upto)])

RECURSIVE read_rows(_, _, _, _, _)
read_rows(grid, cols, rows, row, col) ==
    IF row >= rows THEN <<>>
    ELSE IF col >= cols THEN read_rows(grid, cols, rows, row + 1, 0)
    ELSE (IF row < Len(grid[col]) THEN <<grid[col][row + 1]>> ELSE <<>>)
         \o read_rows(grid, cols, rows, row, col + 1)

\* a transposition that takes the empty stream and hands it back
columnar_transposition_of_nothing(text, key, encrypt, result_size) ==
    IF key = NULL THEN [ret |-> -1, out |-> <<>>]
    ELSE IF Len(Deref(key)) = 0 THEN [ret |-> -1, out |-> <<>>]
    ELSE IF Len(text) = 0 THEN [ret |-> 0, out |-> <<>>]
    ELSE LET key_order == sorted_key_order(Deref(key))
             cols == Len(Deref(key))
             rows == (Len(text) + cols - 1) \div cols
         IN IF encrypt
            THEN [ret |-> 0, out |-> Truncate(read_columns(text, key_order, 1), result_size)]
            ELSE [ret |-> 0,
                  out |-> Truncate(read_rows(
                              distribute(text, key_order, rows, 1, 0,
                                         [c \in 0..(cols - 1) |-> <<>>]),
                              cols, rows, 0, 0), result_size)]

columnar_transposition(text, key, encrypt, result_size) ==
    IF key = NULL THEN [ret |-> -1, out |-> <<>>]
    ELSE LET key_len == Len(Deref(key))
             text_len == Len(text)
         IN IF key_len = 0 \/ text_len = 0 THEN [ret |-> -1, out |-> <<>>]
            ELSE LET key_order == sorted_key_order(Deref(key))
                     cols == key_len
                     rows == (text_len + cols - 1) \div cols
                 IN IF encrypt
                    THEN [ret |-> 0,
                          out |-> Truncate(read_columns(text, key_order, 1), result_size)]
                    ELSE [ret |-> 0,
                          out |-> Truncate(read_rows(
                                      distribute(text, key_order, rows, 1, 0,
                                                 [c \in 0..(cols - 1) |-> <<>>]),
                                      cols, rows, 0, 0), result_size)]

----------------------------------------------------------------------------
(* Numeric key addition stage *)

\* 2^64 mod m, computed without leaving the 32-bit integers
RECURSIVE TwoPowMod(_, _)
TwoPowMod(k, m) == IF k = 0 THEN 1 % m ELSE (2 * TwoPowMod(k - 1, m)) % m

\* an int converted to size_t (64 bits) and reduced modulo m
SizeTMod(v, m) == IF v >= 0 THEN v % m ELSE (TwoPowMod(64, m) + (v % m)) % m

\* numeric_addition whose decrypt branch leaves out "+ strlen(alphabet)"
numeric_addition_no_wrap(text, numeric_key, alphabet, encrypt, result_size) ==
    LET key_len == Len(numeric_key)
        alphabet_len == Len(alphabet)
        shifted(i) ==
            LET char_pos == strchr(alphabet, text[i + 1]) IN
            IF char_pos = 0 THEN text[i + 1]
            ELSE LET char_index == char_pos - 1
                     key_digit == SignedChar(numeric_key[(i % key_len) + 1]) - 48
                     new_index == IF encrypt
                                  THEN SizeTMod(char_index + key_digit, alphabet_len)
                                  ELSE SizeTMod(char_index - key_digit, alphabet_len)
                 IN alphabet[new_index + 1]
    IN [ret |-> 0, out |-> Truncate([i \in 1..Len(text) |-> shifted(i - 1)], result_size)]

\* numeric_addition that takes the first key digit at every position
numeric_addition_first_digit(text, numeric_key, alphabet, encrypt, result_size) ==
    LET alphabet_len == Len(alphabet)
        shifted(i) ==
            LET char_pos == strchr(alphabet, text[i + 1]) IN
            IF char_pos = 0 THEN text[i + 1]
            ELSE LET char_index == char_pos - 1
                     key_digit == SignedChar(numeric_key[1]) - 48
                     new_index == IF encrypt
                                  THEN SizeTMod(char_index + key_digit, alphabet_len)
                                  ELSE SizeTMod(char_index - key_digit + alphabet_len, alphabet_len)
                 IN alphabet[new_index + 1]
    IN [ret |-> 0, out |-> Truncate([i \in 1..Len(text) |-> shifted(i - 1)], result_size)]

\* numeric_addition on a non-empty key (an empty key divides by zero)
numeric_addition(text, numeric_key, alphabet, encrypt, result_size) ==
    LET key_len == Len(numeric_key)
        alphabet_len == Len(alphabet)
        shifted(i) ==
            LET char_pos == strchr(alphabet, text[i + 1]) IN
            IF char_pos = 0 THEN text[i + 1]
            ELSE LET char_index == char_pos - 1
                     key_digit == SignedChar(numeric_key[(i % key_len) + 1]) - 48
                     new_index == IF encrypt
                                  THEN SizeTMod(char_index + key_digit, alphabet_len)
                                  ELSE SizeTMod(char_index - key_digit + alphabet_len, alphabet_len)
                 IN alphabet[new_index + 1]
    IN [ret |-> 0, out |-> Truncate([i \in 1..Len(text) |-> shifted(i - 1)], result_size)]

\* current_key after memmove(current_key, current_key + 1, key_len - 1) and
\* the store of '0' + new_index at its tail
next_key(current_key, new_index) == Append(Tail(current_key), ToByte(48 + new_index))

\* i is the 0-based position in text
RECURSIVE chain_encrypt_from(_, _, _, _)
chain_encrypt_from(text, alphabet, i, current_key) ==
    IF i >= Len(text) THEN <<>>
    ELSE LET char_pos == strchr(alphabet, text[i + 1]) IN
         IF char_pos = 0
         THEN <<text[i + 1]>> \o chain_encrypt_from(text, alphabet, i + 1, current_key)
         ELSE LET char_index == char_pos - 1
                  key_digit == SignedChar(current_key[(i % Len(current_key)) + 1]) - 48
                  new_index == SizeTMod(char_index + key_digit, Len(alphabet))
              IN <<alphabet[new_index + 1]>>
                 \o chain_encrypt_from(text, alphabet, i + 1, next_key(current_key, new_index))

\* chain_addition_encrypt on a non-empty key
chain_addition_encrypt(text, numeric_key, alphabet, result_size) ==
    [ret |-> 0, out |-> Truncate(chain_encrypt_from(text, alphabet, 0, numeric_key), result_size)]

RECURSIVE chain_decrypt_from(_, _, _, _)
chain_decrypt_from(text, alphabet, i, current_key) ==
    IF i >= Len(text) THEN <<>>
    ELSE LET char_pos == strchr(alphabet, text[i + 1]) IN
         IF char_pos = 0
         THEN <<text[i + 1]>> \o chain_decrypt_from(text, alphabet, i + 1, current_key)
         ELSE LET char_index == char_pos - 1
                  key_digit == SignedChar(current_key[(i % Len(current_key)) + 1]) - 48
                  new_index == SizeTMod(char_index - key_digit + Len(alphabet), Len(alphabet))
              IN <<alphabet[new_index + 1]>>
                 \o chain_decrypt_from(text, alphabet, i + 1, next_key(current_key, new_index))

\* chain_addition_decrypt on a non-empty key
chain_addition_decrypt(text, numeric_key, alphabet, result_size) ==
    [ret |-> 0, out |-> Truncate(chain_decrypt_from(text, alphabet, 0, numeric_key), result_size)]

----------------------------------------------------------------------------
(* The pipeline orchestrator: vic_encrypt and vic_decrypt, one step per
   numbered step of the code.  Allocation is assumed to succeed. *)

VARIABLES
    pc,               \* position in the running call
    fn,               \* "none", "encrypt" or "decrypt"
    args,             \* the arguments of the running call
    polybius_square,  \* char polybius_square[1024]
    polybius_pairs,   \* char polybius_pairs[1024]
    digits,           \* char digits[1024]
    checkerboard,     \* char checkerboard[1024]
    letters,          \* char letters[1024]
    transposed,       \* char transposed[1024]
    pass,             \* loop counter of the transposition passes
    result,           \* the caller's result buffer, as a C string
    ret,              \* the value returned by the call
    plain             \* NULL, or the text given to the encrypt call whose buffer is being decrypted

vicvars == <<pc, fn, args, polybius_square, polybius_pairs, digits, checkerboard,
             letters, transposed, pass, result, ret, plain>>

locals == <<polybius_square, polybius_pairs, digits, checkerboard, letters, transposed, pass>>

\* a caller that encrypts twice, the second time with one key changed
VARIABLES
    prev,             \* NULL, or the arguments and the ciphertext of the first call
    changed           \* "none", or the name of the key the second call changed

sensvars == <<prev, changed>>

\* a caller of the transposition loops of vic_encrypt and vic_decrypt
VARIABLES
    t_pc,             \* "idle", "encrypt", "decrypt", "done" or "failed"
    t_text,           \* the stream given to the first encrypt pass
    t_key,            \* the transposition key
    t_passes,         \* transposition_passes
    t_stream,         \* char transposed[1024]
    t_pass,           \* loop counter of the running loop
    t_cipher          \* the stream after the encrypt passes

tvars == <<t_pc, t_text, t_key, t_passes, t_stream, t_pass, t_cipher>>

\* a caller of the two public builders
VARIABLES
    b_fn,             \* "none", "square" or "checkerboard": the builder last called
    b_args,           \* its arguments
    b_ret,            \* the value it returned
    b_before,         \* the caller's buffer before the call
    b_out             \* the caller's buffer after the call

bvars == <<b_fn, b_args, b_ret, b_before, b_out>>

\* chain_addition_encrypt, one step per iteration of its loop, and a caller
\* that runs it on a stream and again on the stream with one character changed
VARIABLES
    c_pc,             \* "idle", "loop" or "done"
    c_text,           \* const char* text
    c_numeric_key,    \* const char* numeric_key
    c_i,              \* size_t i
    c_current_key,    \* char* current_key
    c_result,         \* char* result, as far as it is written
    c_key_digit,      \* int key_digit of the last iteration
    c_new_index,      \* int new_index of the last iteration
    c_first           \* NULL, or the text and the result of the first run

cvars == <<c_pc, c_text, c_numeric_key, c_i, c_current_key, c_result, c_key_digit,
           c_new_index, c_first>>

\* chaocipher_encrypt and chaocipher_decrypt, one step per iteration of their
\* loops, and a caller that decrypts what it encrypted
VARIABLES
    k_pc,             \* "idle", "encrypt_loop", "decrypt_loop" or "returned"
    k_fn,             \* "none", "encrypt" or "decrypt"
    k_text,           \* const char* plaintext, or ciphertext
    k_left,           \* const char* left_alphabet
    k_right,          \* const char* right_alphabet
    k_prepared,       \* char prepared_text[1024]
    k_i,              \* int i
    k_working_left,   \* char working_left[64], indexes 0..alphabet_size
    k_working_right,  \* char working_right[64], indexes 0..alphabet_size
    k_output,         \* char* output, as far as it is written
    k_ret,            \* the value returned
    k_plain           \* NULL, or the plaintext of the encrypt call being undone

kvars == <<k_pc, k_fn, k_text, k_left, k_right, k_prepared, k_i, k_working_left,
           k_working_right, k_output, k_ret, k_plain>>

\* a caller of one stage function of the pipeline
VARIABLES
    s_fn,             \* "none", or the name of the function called
    s_args,           \* its arguments
    s_out             \* what it wrote into its result buffer

svars == <<s_fn, s_args, s_out>>

stagevars == <<cvars, kvars, svars>>

\* what an action on one group of variables leaves alone
cframe == <<vicvars, sensvars, tvars, bvars, kvars, svars>>
kframe == <<vicvars, sensvars, tvars, bvars, cvars, svars>>
sframe == <<vicvars, sensvars, tvars, bvars, cvars, kvars>>

other == <<sensvars, tvars, bvars, stagevars>>

\* what the caller's buffer holds before a call: "OLD"
ResultBefore == <<79, 76, 68>>

RECURSIVE SeqsUpTo(_, _)
SeqsUpTo(chars, n) ==
    IF n = 0 THEN {<<>>}
    ELSE LET shorter == SeqsUpTo(chars, n - 1)
         IN shorter \cup {Append(t, c) : t \in {u \in shorter : Len(u) = n - 1}, c \in chars}

\* 'B', 'L', '7' and a lower-case 'e', which no default square holds
TextChars == {66, 76, 55, 101}
Texts == SeqsUpTo(TextChars, MaxTextLen)
\* "S7"
PolybiusKeys == {NULL, Ptr(<<83, 55>>)}
\* "K9"
CheckerboardKeys == {Ptr(<<75, 57>>)}
\* "", "BA", "BAB"
TranspositionKeys == {Ptr(<<>>), Ptr(<<66, 65>>), Ptr(<<66, 65, 66>>)}
\* "", "1A", "29"
NumericKeys == {Ptr(<<>>), Ptr(<<49, 65>>), Ptr(<<50, 57>>)}
SquareTypes == {"standard", "keyword", "caesar", "bogus"}
\* the default alphabet, or "ABC"
Alphabets == {NULL, Ptr(<<65, 66, 67>>)}

VicArgs ==
    [text : Texts, polybius_key : PolybiusKeys, checkerboard_key : CheckerboardKeys,
     transposition_key : TranspositionKeys, numeric_key : NumericKeys,
     square_type : SquareTypes, alphabet : Alphabets, language : {"english"},
     mono_params : {NULL}, transposition_passes : 0..MaxPasses,
     use_chain_addition : BOOLEAN]

NoArgs ==
    [text |-> <<>>, polybius_key |-> NULL, checkerboard_key |-> NULL,
     transposition_key |-> NULL, numeric_key |-> NULL, square_type |-> "standard",
     alphabet |-> NULL, language |-> "english", mono_params |-> NULL,
     transposition_passes |-> 0, use_chain_addition |-> FALSE]

VicInit ==
    /\ pc = "idle" /\ fn = "none" /\ args = NoArgs
    /\ polybius_square = <<>> /\ polybius_pairs = <<>> /\ digits = <<>>
    /\ checkerboard = <<>> /\ letters = <<>> /\ transposed = <<>> /\ pass = 0
    /\ result = ResultBefore /\ ret = 0 /\ plain = NULL

null_key(a) ==
    a.polybius_key = NULL \/ a.checkerboard_key = NULL
    \/ a.transposition_key = NULL \/ a.numeric_key = NULL

Return(value) == pc' = "returned" /\ ret' = value

\* the call, up to the NULL test of the arguments
vic_encrypt_call ==
    /\ pc = "idle"
    /\ \E a \in VicArgs :
        /\ args' = a /\ fn' = "encrypt" /\ plain' = NULL
        /\ IF null_key(a) THEN Return(-1) ELSE pc' = "enc_step1" /\ ret' = ret
    /\ UNCHANGED <<locals, result>>
    /\ UNCHANGED other

\* Step 1: Generate Polybius square
enc_step1 ==
    /\ pc = "enc_step1"
    /\ LET r == vic_produce_polybius_square(args.square_type, args.polybius_key,
                    Ptr(use_alphabet(args.alphabet, args.language)), args.mono_params,
                    args.language, BufSize)
       IN IF r.ret # 0
          THEN Return(-1) /\ UNCHANGED polybius_square
          ELSE pc' = "enc_step2" /\ polybius_square' = r.out /\ ret' = ret
    /\ UNCHANGED <<fn, args, polybius_pairs, digits, checkerboard, letters, transposed,
                   pass, result, plain>>
    /\ UNCHANGED other

\* Step 2: Substitute to Polybius pairs
enc_step2 ==
    /\ pc = "enc_step2"
    /\ polybius_pairs' = substitute_to_polybius(args.text, polybius_square, BufSize).out
    /\ pc' = "enc_step3"
    /\ UNCHANGED <<fn, args, polybius_square, digits, checkerboard, letters, transposed,
                   pass, result, ret, plain>>
    /\ UNCHANGED other

\* Step 3: Convert pairs to digits
enc_step3 ==
    /\ pc = "enc_step3"
    /\ digits' = pairs_to_digits(polybius_pairs, BufSize).out
    /\ pc' = "enc_step4"
    /\ UNCHANGED <<fn, args, polybius_square, polybius_pairs, checkerboard, letters,
                   transposed, pass, result, ret, plain>>
    /\ UNCHANGED other

\* Step 4: Generate straddling checkerboard
enc_step4 ==
    /\ pc = "enc_step4"
    /\ LET r == vic_produce_checkerboard(args.checkerboard_key,
                    Ptr(use_alphabet(args.alphabet, args.language)), args.language, BufSize)
       IN IF r.ret # 0
          THEN Return(-1) /\ UNCHANGED checkerboard
          ELSE pc' = "enc_step5" /\ checkerboard' = r.out /\ ret' = ret
    /\ UNCHANGED <<fn, args, polybius_square, polybius_pairs, digits, letters, transposed,
                   pass, result, plain>>
    /\ UNCHANGED other

\* step 5 of an encrypt that hands the digits on without the checkerboard
enc_step5_without_remap ==
    /\ pc = "enc_step5"
    /\ letters' = digits
    /\ transposed' = letters'
    /\ pass' = 0
    /\ pc' = "enc_step6"
    /\ UNCHANGED <<fn, args, polybius_square, polybius_pairs, digits, checkerboard,
                   result, ret, plain>>
    /\ UNCHANGED other

\* Step 5: Convert digits to letters using checkerboard; the copy into
\* transposed that opens step 6
enc_step5 ==
    /\ pc = "enc_step5"
    /\ letters' = digits_to_letters(digits, checkerboard, BufSize).out
    /\ transposed' = letters'
    /\ pass' = 0
    /\ pc' = "enc_step6"
    /\ UNCHANGED <<fn, args, polybius_square, polybius_pairs, digits, checkerboard,
                   result, ret, plain>>
    /\ UNCHANGED other

\* Step 6: one pass of the columnar transposition
enc_step6 ==
    /\ pc = "enc_step6"
    /\ pass < args.transposition_passes
    /\ LET r == columnar_transposition(transposed, args.transposition_key, TRUE, BufSize)
       IN IF r.ret # 0
          THEN Return(-1) /\ UNCHANGED <<transposed, pass>>
          ELSE transposed' = r.out /\ pass' = pass + 1 /\ UNCHANGED <<pc, ret>>
    /\ UNCHANGED <<fn, args, polybius_square, polybius_pairs, digits, checkerboard,
                   letters, result, plain>>
    /\ UNCHANGED other

\* the key length divides position i: an empty key is a division by zero
\* as soon as one character of the text is in the alphabet
divides_by_zero(text, numeric_key, alphabet) ==
    Len(numeric_key) = 0 /\ \E i \in 1..Len(text) : strchr(alphabet, text[i]) # 0

\* what a build that does not trap on the division reads as the key: the
\* terminating NUL of the empty key
DivZeroKeys == {<<0>>}

\* the key buffer chain_addition_encrypt leaves behind
RECURSIVE chain_key_after(_, _, _, _)
chain_key_after(text, alphabet, i, current_key) ==
    IF i >= Len(text) THEN current_key
    ELSE LET char_pos == strchr(alphabet, text[i + 1]) IN
         IF char_pos = 0 THEN chain_key_after(text, alphabet, i + 1, current_key)
         ELSE LET key_digit == SignedChar(current_key[(i % Len(current_key)) + 1]) - 48
                  new_index == SizeTMod(char_pos - 1 + key_digit, Len(alphabet))
              IN chain_key_after(text, alphabet, i + 1, next_key(current_key, new_index))

\* enc_step7 of a chain addition that slides the caller's key in place
enc_step7_key_in_place ==
    /\ pc = "enc_step6"
    /\ pass >= args.transposition_passes
    /\ LET alphabet == use_alphabet(args.alphabet, args.language)
           numeric_key == Deref(args.numeric_key)
       IN IF divides_by_zero(transposed, numeric_key, alphabet)
          THEN pc' = "crashed" /\ UNCHANGED <<result, ret, args>>
          ELSE LET r == IF args.use_chain_addition
                        THEN chain_addition_encrypt(transposed, numeric_key, alphabet, BufSize)
                        ELSE numeric_addition(transposed, numeric_key, alphabet, TRUE, BufSize)
               IN /\ result' = r.out /\ Return(r.ret)
                  /\ args' = IF args.use_chain_addition
                             THEN [args EXCEPT !.numeric_key =
                                      Ptr(chain_key_after(transposed, alphabet, 0, numeric_key))]
                             ELSE args
    /\ UNCHANGED <<fn, locals, plain>>
    /\ UNCHANGED other

\* Step 7: Apply numeric key addition, written straight into result
enc_step7 ==
    /\ pc = "enc_step6"
    /\ pass >= args.transposition_passes
    /\ LET alphabet == use_alphabet(args.alphabet, args.language)
           numeric_key == Deref(args.numeric_key)
       IN IF divides_by_zero(transposed, numeric_key, alphabet)
          THEN \/ pc' = "crashed" /\ UNCHANGED <<result, ret>>
               \/ /\ ~args.use_chain_addition
                  /\ \E k \in DivZeroKeys :
                        result' = numeric_addition(transposed, k, alphabet, TRUE, BufSize).out
                  /\ Return(0)
          ELSE LET r == IF args.use_chain_addition
                        THEN chain_addition_encrypt(transposed, numeric_key, alphabet, BufSize)
                        ELSE numeric_addition(transposed, numeric_key, alphabet, TRUE, BufSize)
               IN result' = r.out /\ Return(r.ret)
    /\ UNCHANGED <<fn, args, locals, plain>>
    /\ UNCHANGED other

\* the caller decrypts what its encrypt call left in the buffer, with the
\* same keys and configuration, into a second buffer
vic_decrypt_call ==
    /\ pc = "returned" /\ fn = "encrypt"
    /\ args' = [args EXCEPT !.text = result]
    /\ fn' = "decrypt"
    /\ plain' = Ptr(args.text)
    /\ result' = ResultBefore
    /\ IF null_key(args) THEN Return(-1) ELSE pc' = "dec_step1" /\ ret' = ret
    /\ UNCHANGED locals
    /\ UNCHANGED other

\* Step 1: Reverse numeric key addition
dec_step1 ==
    /\ pc = "dec_step1"
    /\ LET alphabet == use_alphabet(args.alphabet, args.language)
           numeric_key == Deref(args.numeric_key)
       IN IF divides_by_zero(args.text, numeric_key, alphabet)
          THEN \/ pc' = "crashed" /\ UNCHANGED <<letters, transposed, pass>>
               \/ /\ ~args.use_chain_addition
                  /\ \E k \in DivZeroKeys :
                        letters' = numeric_addition(args.text, k, alphabet, FALSE, BufSize).out
                  /\ transposed' = letters' /\ pass' = 0
                  /\ pc' = "dec_step2"
          ELSE /\ letters' = (IF args.use_chain_addition
                              THEN chain_addition_decrypt(args.text, numeric_key, alphabet, BufSize)
                              ELSE numeric_addition(args.text, numeric_key, alphabet, FALSE, BufSize)).out
               /\ transposed' = letters' /\ pass' = 0
               /\ pc' = "dec_step2"
    /\ UNCHANGED <<fn, args, polybius_square, polybius_pairs, digits, checkerboard,
                   result, ret, plain>>
    /\ UNCHANGED other

\* dec_step2 of a decrypt that hands back its letters when the pass fails
dec_step2_partial_output ==
    /\ pc = "dec_step2"
    /\ pass < args.transposition_passes
    /\ LET r == columnar_transposition(transposed, args.transposition_key, FALSE, BufSize)
       IN IF r.ret # 0
          THEN Return(-1) /\ result' = letters /\ UNCHANGED <<transposed, pass>>
          ELSE transposed' = r.out /\ pass' = pass + 1 /\ UNCHANGED <<pc, ret, result>>
    /\ UNCHANGED <<fn, args, polybius_square, polybius_pairs, digits, checkerboard,
                   letters, plain>>
    /\ UNCHANGED other

\* Step 2: one reverse pass of the columnar transposition
dec_step2 ==
    /\ pc = "dec_step2"
    /\ pass < args.transposition_passes
    /\ LET r == columnar_transposition(transposed, args.transposition_key, FALSE, BufSize)
       IN IF r.ret # 0
          THEN Return(-1) /\ UNCHANGED <<transposed, pass>>
          ELSE transposed' = r.out /\ pass' = pass + 1 /\ UNCHANGED <<pc, ret>>
    /\ UNCHANGED <<fn, args, polybius_square, polybius_pairs, digits, checkerboard,
                   letters, result, plain>>
    /\ UNCHANGED other

\* Step 3: Generate straddling checkerboard
dec_step3 ==
    /\ pc = "dec_step2"
    /\ pass >= args.transposition_passes
    /\ LET r == vic_produce_checkerboard(args.checkerboard_key,
                    Ptr(use_alphabet(args.alphabet, args.language)), args.language, BufSize)
       IN IF r.ret # 0
          THEN Return(-1) /\ UNCHANGED checkerboard
          ELSE pc' = "dec_step4" /\ checkerboard' = r.out /\ ret' = ret
    /\ UNCHANGED <<fn, args, polybius_square, polybius_pairs, digits, letters, transposed,
                   pass, result, plain>>
    /\ UNCHANGED other

\* Step 4: Convert letters to digits using checkerboard
dec_step4 ==
    /\ pc = "dec_step4"
    /\ digits' = letters_to_digits(transposed, checkerboard, BufSize).out
    /\ pc' = "dec_step5"
    /\ UNCHANGED <<fn, args, polybius_square, polybius_pairs, checkerboard, letters,
                   transposed, pass, result, ret, plain>>
    /\ UNCHANGED other

\* Step 5: Convert digits to Polybius pairs
dec_step5 ==
    /\ pc = "dec_step5"
    /\ polybius_pairs' = digits_to_pairs(digits, BufSize).out
    /\ pc' = "dec_step6"
    /\ UNCHANGED <<fn, args, polybius_square, digits, checkerboard, letters, transposed,
                   pass, result, ret, plain>>
    /\ UNCHANGED other

\* Step 6: Generate Polybius square
dec_step6 ==
    /\ pc = "dec_step6"
    /\ LET r == vic_produce_polybius_square(args.square_type, args.polybius_key,
                    Ptr(use_alphabet(args.alphabet, args.language)), args.mono_params,
                    args.language, BufSize)
       IN IF r.ret # 0
          THEN Return(-1) /\ UNCHANGED polybius_square
          ELSE pc' = "dec_step7" /\ polybius_square' = r.out /\ ret' = ret
    /\ UNCHANGED <<fn, args, polybius_pairs, digits, checkerboard, letters, transposed,
                   pass, result, plain>>
    /\ UNCHANGED other

\* Step 7: Substitute from Polybius pairs, written straight into result
dec_step7 ==
    /\ pc = "dec_step7"
    /\ LET r == substitute_from_polybius(polybius_pairs, polybius_square, BufSize)
       IN result' = r.out /\ Return(r.ret)
    /\ UNCHANGED <<fn, args, locals, plain>>
    /\ UNCHANGED other

SensInit == prev = NULL /\ changed = "none"

TInit ==
    /\ t_pc = "idle" /\ t_text = <<>> /\ t_key = NULL /\ t_passes = 0
    /\ t_stream = <<>> /\ t_pass = 0 /\ t_cipher = <<>>

BInit ==
    /\ b_fn = "none" /\ b_args = NoArgs /\ b_ret = 0
    /\ b_before = ResultBefore /\ b_out = ResultBefore

CInit ==
    /\ c_pc = "idle" /\ c_text = <<>> /\ c_numeric_key = <<>> /\ c_i = 0
    /\ c_current_key = <<>> /\ c_result = <<>> /\ c_key_digit = 0 /\ c_new_index = 0
    /\ c_first = NULL

KInit ==
    /\ k_pc = "idle" /\ k_fn = "none" /\ k_text = <<>> /\ k_left = <<>> /\ k_right = <<>>
    /\ k_prepared = <<>> /\ k_i = 0 /\ k_working_left = <<>> /\ k_working_right = <<>>
    /\ k_output = <<>> /\ k_ret = 0 /\ k_plain = NULL

SInit == s_fn = "none" /\ s_args = <<>> /\ s_out = <<>>

StageInit == CInit /\ KInit /\ SInit

vars == <<vicvars, sensvars, tvars, bvars, stagevars>>

Init == VicInit /\ SensInit /\ TInit /\ BInit /\ StageInit

Next ==
    \/ vic_encrypt_call
    \/ enc_step1 \/ enc_step2 \/ enc_step3 \/ enc_step4 \/ enc_step5 \/ enc_step6 \/ enc_step7
    \/ vic_decrypt_call
    \/ dec_step1 \/ dec_step2 \/ dec_step3 \/ dec_step4 \/ dec_step5 \/ dec_step6 \/ dec_step7

Spec == Init /\ [][Next]_vars

----------------------------------------------------------------------------
(* A caller that encrypts a text and then encrypts it again with exactly one
   of the four keys replaced *)

all_in(text, alphabet) == \A i \in 1..Len(text) : strchr(alphabet, text[i]) # 0
all_digits(key) == \A i \in 1..Len(key) : isdigit(key[i])

\* texts of 'B', 'L' and '7'
SensTexts == {t \in SeqsUpTo({66, 76, 55}, MaxTextLen) : Len(t) >= 2}

\* the first call, in static mode with the keys "7", "9", "BA", "29"
SensArgs ==
    [text : SensTexts, polybius_key : {Ptr(<<55>>)}, checkerboard_key : {Ptr(<<57>>)},
     transposition_key : {Ptr(<<66, 65>>)}, numeric_key : {Ptr(<<50, 57>>)},
     square_type : {"standard", "keyword"}, alphabet : {NULL}, language : {"english"},
     mono_params : {NULL}, transposition_passes : 1..MaxPasses,
     use_chain_addition : {FALSE}]

KeyNames == {"polybius_key", "checkerboard_key", "transposition_key", "numeric_key"}

\* the keys a second call may use instead: "77" or "9", "99" or "8",
\* "DC" or "AB", "21" or "293"
SensKeys(which) ==
    IF which = "polybius_key" THEN {Ptr(<<55>>), Ptr(<<55, 55>>), Ptr(<<57>>)}
    ELSE IF which = "checkerboard_key" THEN {Ptr(<<57>>), Ptr(<<57, 57>>), Ptr(<<56>>)}
    ELSE IF which = "transposition_key" THEN {Ptr(<<66, 65>>), Ptr(<<68, 67>>), Ptr(<<65, 66>>)}
    ELSE {Ptr(<<50, 57>>), Ptr(<<50, 49>>), Ptr(<<50, 57, 51>>)}

sens_encrypt_call ==
    /\ pc = "idle"
    /\ \E a \in SensArgs : args' = a
    /\ fn' = "encrypt" /\ pc' = "enc_step1"
    /\ UNCHANGED <<locals, result, ret, plain, other>>

vic_encrypt_again ==
    /\ pc = "returned" /\ fn = "encrypt" /\ ret = 0 /\ prev = NULL
    /\ \E which \in KeyNames :
        \E key \in SensKeys(which) :
            /\ key # args[which]
            /\ args' = [args EXCEPT ![which] = key]
            /\ changed' = which
    /\ prev' = Ptr([args |-> args, result |-> result])
    /\ result' = ResultBefore
    /\ pc' = "enc_step1"
    /\ UNCHANGED <<fn, locals, ret, plain, tvars, bvars, stagevars>>

SensNext ==
    \/ sens_encrypt_call
    \/ enc_step1 \/ enc_step2 \/ enc_step3 \/ enc_step4 \/ enc_step5 \/ enc_step6 \/ enc_step7
    \/ vic_encrypt_again

SpecSens == Init /\ [][SensNext]_vars

\* the second call has returned a ciphertext
second_ciphertext == pc = "returned" /\ fn = "encrypt" /\ prev # NULL /\ ret = 0

\* C4: for a plaintext of at least 2 characters, changing any one
\* of the four keys, the rest held fixed, changes the ciphertext
C4_AnyKeyChangesCiphertext ==
    (second_ciphertext /\ Len(args.text) >= 2) => result # Deref(prev).result

\* C4 for the numeric key: in static mode over the default alphabet, replacing the
\* numeric key by a different all-digit key of the same length, a length the
\* ciphertext reaches, changes the ciphertext
C4_NumericKeyChangesCiphertext ==
    (second_ciphertext /\ Len(args.text) >= 2 /\ changed = "numeric_key"
     /\ ~args.use_chain_addition /\ args.alphabet = NULL /\ args.language = "english"
     /\ all_digits(Deref(args.numeric_key))
     /\ all_digits(Deref(Deref(prev).args.numeric_key))
     /\ Len(Deref(args.numeric_key)) = Len(Deref(Deref(prev).args.numeric_key))
     /\ Len(Deref(args.numeric_key)) <= Len(result))
        => result # Deref(prev).result

C4_Witness ==
    /\ second_ciphertext /\ changed = "numeric_key" /\ ~args.use_chain_addition
    /\ Deref(args.numeric_key) = <<50, 49>>
    /\ Len(result) >= 2
    /\ result # Deref(prev).result

----------------------------------------------------------------------------
(* A caller that makes every call twice, with the same arguments and a fresh
   result buffer *)

RepeatArgs ==
    [text : Texts, polybius_key : {Ptr(<<83, 55>>)}, checkerboard_key : CheckerboardKeys,
     transposition_key : {Ptr(<<>>), Ptr(<<66, 65>>)},
     numeric_key : {Ptr(<<49, 65>>), Ptr(<<50, 57>>)},
     square_type : {"standard", "keyword", "bogus"}, alphabet : {NULL},
     language : {"english"}, mono_params : {NULL},
     transposition_passes : 0..MaxPasses, use_chain_addition : BOOLEAN]

repeat_encrypt_call ==
    /\ pc = "idle"
    /\ \E a \in RepeatArgs : args' = a
    /\ fn' = "encrypt" /\ pc' = "enc_step1"
    /\ UNCHANGED <<locals, result, ret, plain, other>>

\* the same call again: the locals hold what the first call left in them
vic_call_again ==
    /\ pc = "returned"
    /\ IF prev = NULL THEN TRUE ELSE Deref(prev).fn # fn
    /\ prev' = Ptr([fn |-> fn, args |-> args, result |-> result, ret |-> ret])
    /\ result' = ResultBefore
    /\ pc' = IF fn = "encrypt" THEN "enc_step1" ELSE "dec_step1"
    /\ UNCHANGED <<fn, args, locals, ret, plain, changed, tvars, bvars, stagevars>>

RepeatNext ==
    \/ repeat_encrypt_call
    \/ enc_step1 \/ enc_step2 \/ enc_step3 \/ enc_step4 \/ enc_step5 \/ enc_step6 \/ enc_step7
    \/ vic_decrypt_call
    \/ dec_step1 \/ dec_step2 \/ dec_step3 \/ dec_step4 \/ dec_step5 \/ dec_step6 \/ dec_step7
    \/ vic_call_again

SpecRepeat == Init /\ [][RepeatNext]_vars

\* the second of two calls with the same arguments has returned
second_return == pc = "returned" /\ prev # NULL /\ Deref(prev).fn = fn

\* C12: two calls of vic_encrypt, or of vic_decrypt, with identical arguments
\* return the same status and the same output, in static and in chain mode,
\* and leave the caller's numeric key as it was
C12_SameArgumentsSameOutput ==
    second_return
        => /\ ret = Deref(prev).ret
           /\ result = Deref(prev).result
           /\ args.numeric_key = Deref(prev).args.numeric_key

C12_Witness ==
    /\ second_return /\ fn = "decrypt" /\ args.use_chain_addition
    /\ args.transposition_passes = 2 /\ Len(Deref(plain)) = 2
    /\ ret = 0 /\ result = Deref(prev).result /\ result # <<>>

----------------------------------------------------------------------------
(* The round trip over the built-in Turkish alphabet, with the keys of
   vic_example.c *)

\* "A", "F", and the two-byte letters C-cedilla and S-cedilla
TurkishChars == {<<65>>, <<70>>, <<195, 135>>, <<197, 158>>}

RECURSIVE TurkishTextsUpTo(_)
TurkishTextsUpTo(n) ==
    IF n = 0 THEN {<<>>}
    ELSE LET shorter == TurkishTextsUpTo(n - 1)
         IN shorter \cup {t \o c : t \in {u \in shorter : utf8_strlen(u) = n - 1},
                                    c \in TurkishChars}

TurkishTexts == TurkishTextsUpTo(MaxTextLen) \ {<<>>}

\* "SECRET", "KEYWORD", "CIPHER", "123456"
TurkishArgs ==
    [text : TurkishTexts, polybius_key : {Ptr(<<83, 69, 67, 82, 69, 84>>)},
     checkerboard_key : {Ptr(<<75, 69, 89, 87, 79, 82, 68>>)},
     transposition_key : {Ptr(<<67, 73, 80, 72, 69, 82>>)},
     numeric_key : {Ptr(<<49, 50, 51, 52, 53, 54>>)},
     square_type : {"standard", "keyword"}, alphabet : {NULL},
     language : {"turkish"}, mono_params : {NULL},
     transposition_passes : 1..MaxPasses, use_chain_addition : {FALSE}]

turkish_encrypt_call ==
    /\ pc = "idle"
    /\ \E a \in TurkishArgs : args' = a
    /\ fn' = "encrypt" /\ pc' = "enc_step1"
    /\ UNCHANGED <<locals, result, ret, plain, other>>

TurkishNext ==
    \/ turkish_encrypt_call
    \/ enc_step1 \/ enc_step2 \/ enc_step3 \/ enc_step4 \/ enc_step5 \/ enc_step6 \/ enc_step7
    \/ vic_decrypt_call
    \/ dec_step1 \/ dec_step2 \/ dec_step3 \/ dec_step4 \/ dec_step5 \/ dec_step6 \/ dec_step7

SpecTurkish == Init /\ [][TurkishNext]_vars

\* C13: with language "turkish" and no custom alphabet, in static mode with
\* square type standard or keyword, vic_decrypt of the output of vic_encrypt
\* with the same keys returns exactly the plaintext
C13_TurkishRoundTrip ==
    (fn \in {"encrypt", "decrypt"} /\ pc = "returned" /\ args.language = "turkish"
     /\ args.alphabet = NULL /\ ~args.use_chain_addition)
        => /\ ret = 0
           /\ fn = "decrypt" => result = Deref(plain)

----------------------------------------------------------------------------
(* The transposition loops on their own: the N encrypt passes of vic_encrypt
   followed by the N decrypt passes of vic_decrypt, same key *)

\* 'X', 'Y', 'Z'
StreamChars == {88, 89, 90}
Streams == SeqsUpTo(StreamChars, MaxStreamLen)
\* 'A', 'B', 'C'
KeyChars == {65, 66, 67}
Keys == {Ptr(k) : k \in SeqsUpTo(KeyChars, MaxKeyLen)}

transposition_start ==
    /\ t_pc = "idle"
    /\ \E text \in Streams, key \in Keys, n \in 1..MaxPasses :
        /\ t_text' = text /\ t_key' = key /\ t_passes' = n
        /\ t_stream' = text /\ t_pass' = 0
    /\ t_pc' = "encrypt"
    /\ UNCHANGED <<t_cipher, vicvars, sensvars, bvars, stagevars>>

transposition_encrypt_pass ==
    /\ t_pc = "encrypt" /\ t_pass < t_passes
    /\ LET r == columnar_transposition(t_stream, t_key, TRUE, BufSize)
       IN IF r.ret # 0
          THEN t_pc' = "failed" /\ UNCHANGED <<t_stream, t_pass>>
          ELSE t_stream' = r.out /\ t_pass' = t_pass + 1 /\ UNCHANGED t_pc
    /\ UNCHANGED <<t_text, t_key, t_passes, t_cipher, vicvars, sensvars, bvars, stagevars>>

transposition_encrypt_done ==
    /\ t_pc = "encrypt" /\ t_pass >= t_passes
    /\ t_cipher' = t_stream /\ t_pass' = 0 /\ t_pc' = "decrypt"
    /\ UNCHANGED <<t_text, t_key, t_passes, t_stream, vicvars, sensvars, bvars, stagevars>>

\* a decrypt pass that runs the encrypt direction again
transposition_decrypt_pass_forward ==
    /\ t_pc = "decrypt" /\ t_pass < t_passes
    /\ LET r == columnar_transposition(t_stream, t_key, TRUE, BufSize)
       IN IF r.ret # 0
          THEN t_pc' = "failed" /\ UNCHANGED <<t_stream, t_pass>>
          ELSE t_stream' = r.out /\ t_pass' = t_pass + 1 /\ UNCHANGED t_pc
    /\ UNCHANGED <<t_text, t_key, t_passes, t_cipher, vicvars, sensvars, bvars, stagevars>>

transposition_decrypt_pass ==
    /\ t_pc = "decrypt" /\ t_pass < t_passes
    /\ LET r == columnar_transposition(t_stream, t_key, FALSE, BufSize)
       IN IF r.ret # 0
          THEN t_pc' = "failed" /\ UNCHANGED <<t_stream, t_pass>>
          ELSE t_stream' = r.out /\ t_pass' = t_pass + 1 /\ UNCHANGED t_pc
    /\ UNCHANGED <<t_text, t_key, t_passes, t_cipher, vicvars, sensvars, bvars, stagevars>>

transposition_decrypt_done ==
    /\ t_pc = "decrypt" /\ t_pass >= t_passes
    /\ t_pc' = "done"
    /\ UNCHANGED <<t_text, t_key, t_passes, t_stream, t_pass, t_cipher, vicvars, sensvars, bvars, stagevars>>

TNext ==
    \/ transposition_start
    \/ transposition_encrypt_pass
    \/ transposition_encrypt_done
    \/ transposition_decrypt_pass
    \/ transposition_decrypt_done

SpecTransposition == Init /\ [][TNext]_vars

\* C3: for a non-empty stream and a non-empty key, N decrypt passes applied
\* to the result of N encrypt passes with the same key return the stream,
\* and no pass fails
C3_TranspositionRoundTrip ==
    (t_text # <<>> /\ t_key # NULL /\ Deref(t_key) # <<>>)
        => /\ t_pc # "failed"
           /\ t_pc = "done" => t_stream = t_text

\* three passes under a key with a repeated character, over a stream whose
\* length is no multiple of the key length and which the passes did move
C3_Witness ==
    /\ t_pc = "done" /\ t_passes = 3
    /\ Deref(t_key) = <<66, 65, 66>>
    /\ Len(t_text) % Len(Deref(t_key)) # 0
    /\ t_cipher # t_text
    /\ t_stream = t_text

\* one encrypt pass applied twice to the stream does not give it back
pass_not_self_inverse ==
    /\ t_key # NULL
    /\ LET once == columnar_transposition(t_text, t_key, TRUE, BufSize)
           twice == columnar_transposition(once.out, t_key, TRUE, BufSize)
       IN once.ret = 0 /\ twice.ret = 0 /\ twice.out # t_text

\* C22: with 2 or 3 passes, for a key and stream where one encrypt pass
\* applied twice does not give back the stream, the N decrypt passes do not
\* undo the N encrypt passes
C22_SameOrderFailsRoundTrip ==
    (t_pc = "done" /\ t_passes >= 2 /\ pass_not_self_inverse) => t_stream # t_text

\* C22 as the code has it: with 2 or 3 passes the N decrypt passes undo the N
\* encrypt passes also where one encrypt pass is not its own inverse
C22_DecryptPassesUndoEncryptPasses ==
    (t_pc = "done" /\ t_passes >= 2 /\ pass_not_self_inverse)
        => (t_stream = t_text /\ t_cipher # <<>>)

\* two passes under a key of three characters that moved the stream
C22_Witness ==
    /\ t_pc = "done" /\ t_passes = 2 /\ pass_not_self_inverse
    /\ Len(Deref(t_key)) = 3 /\ Len(t_text) = 3
    /\ t_cipher # t_text /\ t_stream = t_text

----------------------------------------------------------------------------
(* The two public builders, called directly *)

\* NULL, "S7", "k"
BuilderKeywords == {NULL, Ptr(<<83, 55>>), Ptr(<<107>>)}
\* NULL (the built-in alphabet of the language) and four custom alphabets
\* without duplicates: the default one without its '9' (35 characters),
\* "abc...z0123456789", "ABC...XY0123456789!" (25 letters) and "ABC"
BuilderAlphabets ==
    {NULL,
     Ptr(Range(65, 90) \o Range(48, 56)),
     Ptr(Range(97, 122) \o Range(48, 57)),
     Ptr(Range(65, 89) \o Range(48, 57) \o <<33>>),
     Ptr(<<65, 66, 67>>)}
\* NULL, {"shift": 5} and {"a": 5, "b": 8}
BuilderMonoParams ==
    {NULL,
     Ptr(<<123, 34, 115, 104, 105, 102, 116, 34, 58, 32, 53, 125>>),
     Ptr(<<123, 34, 97, 34, 58, 32, 53, 44, 32, 34, 98, 34, 58, 32, 56, 125>>)}
BuilderSquareTypes == {"standard", "keyword", "caesar", "atbash", "affine", "bogus"}
Languages == {"english", "turkish"}

produce_polybius_square_call ==
    /\ b_fn = "none"
    /\ \E square_type \in BuilderSquareTypes, keyword \in BuilderKeywords,
          alphabet \in BuilderAlphabets, mono_params \in BuilderMonoParams,
          language \in Languages :
        LET r == vic_produce_polybius_square(square_type, keyword, alphabet, mono_params,
                                             language, BufSize)
        IN /\ b_args' = [NoArgs EXCEPT !.square_type = square_type, !.polybius_key = keyword,
                                       !.alphabet = alphabet, !.mono_params = mono_params,
                                       !.language = language]
           /\ b_ret' = r.ret
           /\ b_out' = IF r.ret = 0 THEN r.out ELSE b_out
    /\ b_fn' = "square"
    /\ b_before' = b_out
    /\ UNCHANGED <<vicvars, sensvars, tvars, stagevars>>

produce_checkerboard_call ==
    /\ b_fn = "none"
    /\ \E keyword \in BuilderKeywords, alphabet \in BuilderAlphabets, language \in Languages :
        LET r == vic_produce_checkerboard(keyword, alphabet, language, BufSize)
        IN /\ b_args' = [NoArgs EXCEPT !.checkerboard_key = keyword, !.alphabet = alphabet,
                                       !.language = language]
           /\ b_ret' = r.ret
           /\ b_out' = IF r.ret = 0 THEN r.out ELSE b_out
    /\ b_fn' = "checkerboard"
    /\ b_before' = b_out
    /\ UNCHANGED <<vicvars, sensvars, tvars, stagevars>>

BNext ==
    \/ produce_polybius_square_call
    \/ produce_checkerboard_call

SpecBuilders == Init /\ [][BNext]_vars

\* the 0-based columns of key in ascending order of their characters, equal
\* characters in their left-to-right order
stable_order(key) ==
    LET n == Len(key)
        before(a, b) == key[a + 1] < key[b + 1] \/ (key[a + 1] = key[b + 1] /\ a < b)
        rank(c) == Cardinality({a \in 0..(n - 1) : before(a, c)})
    IN [k \in 1..n |-> CHOOSE c \in 0..(n - 1) : rank(c) = k - 1]

\* the characters of column c of text written row-major in rows of width cols
grid_column(text, cols, c) ==
    LET picked == {i \in 1..Len(text) : (i - 1) % cols = c}
        nth(k) == CHOOSE i \in picked : Cardinality({j \in picked : j < i}) = k - 1
    IN [k \in 1..Cardinality(picked) |-> text[nth(k)]]

RECURSIVE columns_in_order(_, _, _)
columns_in_order(text, order, k) ==
    IF k > Len(order) THEN <<>>
    ELSE grid_column(text, Len(order), order[k]) \o columns_in_order(text, order, k + 1)

\* C16: one encrypt pass outputs the columns of the row-major grid in stable
\* ascending order of the key characters, equal characters left to right
C16_ColumnsInStableKeyOrder ==
    (t_pc = "encrypt" /\ t_pass = 1)
        => t_stream = columns_in_order(t_text, stable_order(Deref(t_key)), 1)

----------------------------------------------------------------------------
(* The loop of chain_addition_encrypt over the default alphabet *)

\* 'A', 'J', '9': the alphabet indexes 0, 9 and 35
ChainChars == {65, 74, 57}
ChainStreams == SeqsUpTo(ChainChars, MaxStreamLen) \ {<<>>}
\* the digits '1' and '9'
ChainDigits == {49, 57}
ChainKeys == SeqsUpTo(ChainDigits, MaxKeyLen) \ {<<>>}

\* text with the character at the 1-based position p replaced by c
replace_at(text, p, c) == [text EXCEPT ![p] = c]

\* entry of chain_addition_encrypt: current_key is a copy of numeric_key
chain_enter(text, numeric_key) ==
    /\ c_text' = text /\ c_numeric_key' = numeric_key
    /\ c_current_key' = numeric_key
    /\ c_i' = 0 /\ c_result' = <<>> /\ c_key_digit' = 0 /\ c_new_index' = 0
    /\ c_pc' = "loop"

chain_addition_encrypt_call ==
    /\ c_pc = "idle"
    /\ \E text \in ChainStreams, numeric_key \in ChainKeys : chain_enter(text, numeric_key)
    /\ UNCHANGED c_first
    /\ UNCHANGED cframe

\* an iteration that leaves current_key as it is
chain_loop_step_no_feedback ==
    /\ c_pc = "loop"
    /\ c_i < Len(c_text) /\ Len(c_result) < BufSize - 1
    /\ LET alphabet == DEFAULT_VIC_ALPHABET
           key_len == Len(c_numeric_key)
           char_pos == strchr(alphabet, c_text[c_i + 1])
       IN IF char_pos # 0
          THEN LET char_index == char_pos - 1
                   key_digit == SignedChar(c_current_key[(c_i % key_len) + 1]) - 48
                   new_index == SizeTMod(char_index + key_digit, Len(alphabet))
               IN /\ c_result' = Append(c_result, alphabet[new_index + 1])
                  /\ c_key_digit' = key_digit /\ c_new_index' = new_index
                  /\ UNCHANGED c_current_key
          ELSE /\ c_result' = Append(c_result, c_text[c_i + 1])
               /\ UNCHANGED <<c_current_key, c_key_digit, c_new_index>>
    /\ c_i' = c_i + 1
    /\ UNCHANGED <<c_pc, c_text, c_numeric_key, c_first>>
    /\ UNCHANGED cframe

\* one iteration of the for loop
chain_loop_step ==
    /\ c_pc = "loop"
    /\ c_i < Len(c_text) /\ Len(c_result) < BufSize - 1
    /\ LET alphabet == DEFAULT_VIC_ALPHABET
           key_len == Len(c_numeric_key)
           char_pos == strchr(alphabet, c_text[c_i + 1])
       IN IF char_pos # 0
          THEN LET char_index == char_pos - 1
                   key_digit == SignedChar(c_current_key[(c_i % key_len) + 1]) - 48
                   new_index == SizeTMod(char_index + key_digit, Len(alphabet))
               IN /\ c_result' = Append(c_result, alphabet[new_index + 1])
                  /\ c_current_key' = Append(Tail(c_current_key), ToByte(48 + new_index))
                  /\ c_key_digit' = key_digit /\ c_new_index' = new_index
          ELSE /\ c_result' = Append(c_result, c_text[c_i + 1])
               /\ UNCHANGED <<c_current_key, c_key_digit, c_new_index>>
    /\ c_i' = c_i + 1
    /\ UNCHANGED <<c_pc, c_text, c_numeric_key, c_first>>
    /\ UNCHANGED cframe

\* the loop condition fails: the result is terminated and returned
chain_loop_exit ==
    /\ c_pc = "loop"
    /\ ~(c_i < Len(c_text) /\ Len(c_result) < BufSize - 1)
    /\ c_pc' = "done"
    /\ UNCHANGED <<c_text, c_numeric_key, c_i, c_current_key, c_result, c_key_digit,
                   c_new_index, c_first>>
    /\ UNCHANGED cframe

\* the second call: same key, one character of the stream changed
chain_addition_encrypt_again ==
    /\ c_pc = "done" /\ c_first = NULL
    /\ \E p \in 1..Len(c_text) : \E c \in ChainChars \ {c_text[p]} :
           chain_enter(replace_at(c_text, p, c), c_numeric_key)
    /\ c_first' = Ptr([text |-> c_text, result |-> c_result])
    /\ UNCHANGED cframe

CNext ==
    \/ chain_addition_encrypt_call
    \/ chain_loop_step
    \/ chain_loop_exit
    \/ chain_addition_encrypt_again

SpecChain == Init /\ [][CNext]_vars

\* the 1-based position at which the second stream differs from the first
changed_at == CHOOSE p \in 1..Len(c_text) : c_text[p] # Deref(c_first).text[p]

second_chain_result == c_pc = "done" /\ c_first # NULL

\* C11: in chain mode, changing one character of the stream changes every
\* ciphertext position from that position through the next |numeric key|
\* outputs
C11_ChangePropagatesThroughKeyLength ==
    second_chain_result
        => \A j \in changed_at..Min(Len(c_result), changed_at + Len(c_numeric_key)) :
               c_result[j] # Deref(c_first).result[j]

\* C11 for the changed position: in chain mode over the default alphabet,
\* changing one character of the stream changes the ciphertext at that
\* position and at no earlier position, and with a numeric key of one digit
\* it changes every later position as well
C11_ChangeReachesItsPosition ==
    second_chain_result
        => /\ c_result[changed_at] # Deref(c_first).result[changed_at]
           /\ \A j \in 1..(changed_at - 1) : c_result[j] = Deref(c_first).result[j]
           /\ Len(c_numeric_key) = 1
                  => \A j \in changed_at..Len(c_result) :
                         c_result[j] # Deref(c_first).result[j]

C11_Witness ==
    /\ second_chain_result /\ Len(c_numeric_key) = 2 /\ Len(c_text) = 4
    /\ changed_at = 2
    /\ c_result[2] # Deref(c_first).result[2]
    /\ c_result[1] = Deref(c_first).result[1]

\* C17: the shift applied at position i is the leading element of the key
\* buffer, and the buffer is then shifted left by one with a digit 0..9
\* appended at its tail
C17_LeadingElementSuppliesShift ==
    [][(c_pc = "loop" /\ c_i' = c_i + 1)
         => /\ c_key_digit' = SignedChar(c_current_key[1]) - 48
            /\ \E d \in 48..57 : c_current_key' = Append(Tail(c_current_key), d)]_vars

----------------------------------------------------------------------------
(* Chaocipher (chaocipher.c), on alphabets of alphabet_size >= 14 characters *)

\* char prepared_text[1024], and the callers' output buffers
PreparedSize == 1024

is_in_alphabet(c, alphabet, alphabet_size) ==
    \E i \in 1..alphabet_size : alphabet[i] = c

\* the 0-based position of the first c among the first alphabet_size
\* characters, or -1
find_char_position(c, alphabet, alphabet_size) ==
    IF is_in_alphabet(c, alphabet, alphabet_size)
    THEN (CHOOSE i \in 1..alphabet_size :
              alphabet[i] = c /\ \A j \in 1..(i - 1) : alphabet[j] # c) - 1
    ELSE -1

\* memmove(&buf[dst], &buf[src], n), indexes 0-based, n >= 0
memmove(buf, dst, src, n) ==
    [i \in 1..Len(buf) |->
        IF i - 1 >= dst /\ i - 1 < dst + n THEN buf[src + (i - 1 - dst) + 1] ELSE buf[i]]

\* memcpy(&buf[dst], from, n) from a separate array
memcpy(buf, dst, from, n) ==
    [i \in 1..Len(buf) |->
        IF i - 1 >= dst /\ i - 1 < dst + n THEN from[i - dst] ELSE buf[i]]

\* a permutation whose steps 3 and 4 do not put the saved characters back
chaocipher_permute_without_restore(alphabet, alphabet_size, ch) ==
    LET pos == find_char_position(ch, alphabet, alphabet_size) IN
    IF pos = -1 THEN alphabet
    ELSE LET temp == alphabet[pos + 1]
             a1 == memmove(alphabet, pos, pos + 1, alphabet_size - pos - 1)
             a2 == memmove(a1, 1, 0, alphabet_size - 1)
             a3 == [a2 EXCEPT ![1] = temp]
             temp2 == a3[2]
             a4 == memmove(a3, 1, 2, alphabet_size - 2)
             a5 == memmove(a4, 14, 13, alphabet_size - 14)
             a6 == [a5 EXCEPT ![14] = temp2]
             a7 == memmove(a6, 14, 13, alphabet_size - 13)
         IN IF alphabet_size > 14 THEN a7 ELSE a6

\* the body the two permutation functions share, on a buffer that holds
\* indexes 0..alphabet_size
chaocipher_permute(alphabet, alphabet_size, ch) ==
    LET pos == find_char_position(ch, alphabet, alphabet_size) IN
    IF pos = -1 THEN alphabet
    ELSE LET \* Step 1: move the character to position 0
             temp == alphabet[pos + 1]
             a1 == memmove(alphabet, pos, pos + 1, alphabet_size - pos - 1)
             a2 == memmove(a1, 1, 0, alphabet_size - 1)
             a3 == [a2 EXCEPT ![1] = temp]
             \* Step 2: move the character at position 1 to position 13
             temp2 == a3[2]
             a4 == memmove(a3, 1, 2, alphabet_size - 2)
             a5 == memmove(a4, 14, 13, alphabet_size - 14)
             a6 == [a5 EXCEPT ![14] = temp2]
             \* Steps 3 & 4: save indexes 14.., move 13.. up by one, restore
             chars_15_26_len == alphabet_size - 14
             temp_chars == SubSeq(a6, 15, 14 + chars_15_26_len)
             a7 == memmove(a6, 14, 13, alphabet_size - 13)
             a8 == memcpy(a7, 14, temp_chars, chars_15_26_len)
         IN IF alphabet_size > 14 THEN a8 ELSE a6

chaocipher_permute_right_alphabet(alphabet, alphabet_size, plain_char) ==
    chaocipher_permute(alphabet, alphabet_size, plain_char)

chaocipher_permute_left_alphabet(alphabet, alphabet_size, cipher_char) ==
    chaocipher_permute(alphabet, alphabet_size, cipher_char)

\* the lower-cased characters of text that are in the alphabet
chaocipher_prepare_text(text, alphabet, alphabet_size, output_size) ==
    Truncate(SelectSeq([i \in 1..Len(text) |-> tolower(text[i])],
                       LAMBDA c : is_in_alphabet(c, alphabet, alphabet_size)),
             output_size)

\* strncpy(working, alphabet, alphabet_size); working[alphabet_size] = '\0'
working_copy(alphabet, alphabet_size) == Take(alphabet, alphabet_size) \o <<0>>

\* "A..Z ", "a..z " and " z..a"
UPPER_ALPHABET == Range(65, 90) \o <<32>>
LOWER_ALPHABET == Range(97, 122) \o <<32>>
REVERSED_ALPHABET == <<32>> \o [i \in 1..26 |-> 123 - i]

\* <<left_alphabet, right_alphabet>>
ChaoAlphabets ==
    {<<UPPER_ALPHABET, UPPER_ALPHABET>>, <<LOWER_ALPHABET, LOWER_ALPHABET>>,
     <<REVERSED_ALPHABET, LOWER_ALPHABET>>}

\* 'H', 'h', ' ' and '!'
ChaoChars == {72, 104, 32, 33}
ChaoTexts == SeqsUpTo(ChaoChars, MaxChaoLen)

alphabet_size == Len(k_left)

\* entry of either function: the text is prepared against lookup, the
\* working copies are made
chao_enter(text, left_alphabet, right_alphabet, lookup) ==
    /\ k_text' = text /\ k_left' = left_alphabet /\ k_right' = right_alphabet
    /\ k_prepared' = chaocipher_prepare_text(text, lookup, Len(left_alphabet), PreparedSize)
    /\ k_working_left' = working_copy(left_alphabet, Len(left_alphabet))
    /\ k_working_right' = working_copy(right_alphabet, Len(left_alphabet))
    /\ k_i' = 0 /\ k_output' = <<>>

chaocipher_encrypt_call ==
    /\ k_pc = "idle"
    /\ \E text \in ChaoTexts, alphabets \in ChaoAlphabets :
           chao_enter(text, alphabets[1], alphabets[2], alphabets[2])
    /\ k_fn' = "encrypt" /\ k_pc' = "encrypt_loop"
    /\ UNCHANGED <<k_ret, k_plain>>
    /\ UNCHANGED kframe

\* an encrypt loop that permutes the left alphabet only
chaocipher_encrypt_step_left_only ==
    /\ k_pc = "encrypt_loop"
    /\ k_i < Len(k_prepared) /\ Len(k_output) < PreparedSize - 1
    /\ LET c == k_prepared[k_i + 1]
           right_pos == find_char_position(c, k_working_right, alphabet_size)
       IN IF right_pos = -1
          THEN UNCHANGED <<k_output, k_working_left, k_working_right>>
          ELSE LET cipher_char == k_working_left[right_pos + 1]
               IN /\ k_output' = Append(k_output, cipher_char)
                  /\ k_working_left' =
                         chaocipher_permute_left_alphabet(k_working_left, alphabet_size, cipher_char)
                  /\ UNCHANGED k_working_right
    /\ k_i' = k_i + 1
    /\ UNCHANGED <<k_pc, k_fn, k_text, k_left, k_right, k_prepared, k_ret, k_plain>>
    /\ UNCHANGED kframe

\* one iteration of the loop of chaocipher_encrypt
chaocipher_encrypt_step ==
    /\ k_pc = "encrypt_loop"
    /\ k_i < Len(k_prepared) /\ Len(k_output) < PreparedSize - 1
    /\ LET c == k_prepared[k_i + 1]
           right_pos == find_char_position(c, k_working_right, alphabet_size)
       IN IF right_pos = -1
          THEN UNCHANGED <<k_output, k_working_left, k_working_right>>
          ELSE LET cipher_char == k_working_left[right_pos + 1]
               IN /\ k_output' = Append(k_output, cipher_char)
                  /\ k_working_left' =
                         chaocipher_permute_left_alphabet(k_working_left, alphabet_size, cipher_char)
                  /\ k_working_right' =
                         chaocipher_permute_right_alphabet(k_working_right, alphabet_size, c)
    /\ k_i' = k_i + 1
    /\ UNCHANGED <<k_pc, k_fn, k_text, k_left, k_right, k_prepared, k_ret, k_plain>>
    /\ UNCHANGED kframe

\* the loop of either function ends: the output is terminated and its
\* length returned
chaocipher_return ==
    /\ k_pc \in {"encrypt_loop", "decrypt_loop"}
    /\ ~(k_i < Len(k_prepared) /\ Len(k_output) < PreparedSize - 1)
    /\ k_ret' = Len(k_output)
    /\ k_pc' = "returned"
    /\ UNCHANGED <<k_fn, k_text, k_left, k_right, k_prepared, k_i, k_working_left,
                   k_working_right, k_output, k_plain>>
    /\ UNCHANGED kframe

\* the caller decrypts the output of its encrypt call with the same initial
\* alphabets
chaocipher_decrypt_call ==
    /\ k_pc = "returned" /\ k_fn = "encrypt"
    /\ chao_enter(k_output, k_left, k_right, k_left)
    /\ k_plain' = Ptr(k_text)
    /\ k_fn' = "decrypt" /\ k_pc' = "decrypt_loop"
    /\ UNCHANGED k_ret
    /\ UNCHANGED kframe

\* one iteration of the loop of chaocipher_decrypt
chaocipher_decrypt_step ==
    /\ k_pc = "decrypt_loop"
    /\ k_i < Len(k_prepared) /\ Len(k_output) < PreparedSize - 1
    /\ LET c == k_prepared[k_i + 1]
           left_pos == find_char_position(c, k_working_left, alphabet_size)
       IN IF left_pos = -1
          THEN UNCHANGED <<k_output, k_working_left, k_working_right>>
          ELSE LET plain_char == k_working_right[left_pos + 1]
               IN /\ k_output' = Append(k_output, plain_char)
                  /\ k_working_left' =
                         chaocipher_permute_left_alphabet(k_working_left, alphabet_size, c)
                  /\ k_working_right' =
                         chaocipher_permute_right_alphabet(k_working_right, alphabet_size, plain_char)
    /\ k_i' = k_i + 1
    /\ UNCHANGED <<k_pc, k_fn, k_text, k_left, k_right, k_prepared, k_ret, k_plain>>
    /\ UNCHANGED kframe

KNext ==
    \/ chaocipher_encrypt_call
    \/ chaocipher_encrypt_step
    \/ chaocipher_return
    \/ chaocipher_decrypt_call
    \/ chaocipher_decrypt_step

SpecChaocipher == Init /\ [][KNext]_vars

\* the characters of text that are members of the right alphabet
members(text) == SelectSeq(text, LAMBDA c : is_in_alphabet(c, k_right, Len(k_right)))

\* C14: for a plaintext whose characters all belong to the alphabet, and left
\* and right alphabets that are permutations of it, chaocipher_decrypt of the
\* output of chaocipher_encrypt with the same alphabets returns the plaintext
C14_ChaocipherRoundTrip ==
    (k_pc = "returned" /\ k_fn = "decrypt"
     /\ members(Deref(k_plain)) = Deref(k_plain)
     /\ elements(k_left) = elements(k_right))
        => k_output = Deref(k_plain)

\* C15: chaocipher_encrypt returns the number of input characters that are
\* members of the alphabet and emits one ciphertext character for each
C15_EncryptCountsAlphabetCharacters ==
    (k_pc = "returned" /\ k_fn = "encrypt")
        => /\ k_ret = Len(members(k_text))
           /\ Len(k_output) = Len(members(k_text))

\* the first alphabet_size characters of working hold every character of
\* initial exactly once
is_permutation_of(working, initial) ==
    LET w == Take(working, Len(initial))
    IN /\ Len(w) = Len(initial)
       /\ elements(w) = elements(initial)
       /\ Cardinality(elements(w)) = Len(initial)

\* <<left, right>> after chaocipher_encrypt processed k characters of prepared
RECURSIVE encrypt_alphabets_after(_, _, _, _)
encrypt_alphabets_after(prepared, k, left, right) ==
    IF k = 0 THEN <<working_copy(left, Len(left)), working_copy(right, Len(left))>>
    ELSE LET before == encrypt_alphabets_after(prepared, k - 1, left, right)
             c == prepared[k]
             right_pos == find_char_position(c, before[2], Len(left))
         IN IF right_pos = -1 THEN before
            ELSE <<chaocipher_permute_left_alphabet(before[1], Len(left),
                                                    before[1][right_pos + 1]),
                   chaocipher_permute_right_alphabet(before[2], Len(left), c)>>

C28_EqualAlphabetsGiveIdentity ==
    (k_fn = "encrypt" /\ k_pc \in {"encrypt_loop", "returned"} /\ k_left = k_right)
        => /\ k_working_left = k_working_right
           /\ k_output = Take(k_prepared, k_i)
           /\ k_pc = "returned" => (k_output = k_prepared /\ k_ret = Len(k_prepared))

\* MaxChaoLen characters over the lower-case alphabet, 'h' among them, after
\* which the working alphabets have moved
C28_Witness ==
    /\ k_fn = "encrypt" /\ k_pc = "returned"
    /\ k_left = LOWER_ALPHABET /\ k_right = LOWER_ALPHABET
    /\ Len(k_output) = MaxChaoLen /\ 104 \in elements(k_output)
    /\ Take(k_working_left, alphabet_size) # k_left
    /\ k_working_left = k_working_right

----------------------------------------------------------------------------
(* The byte moves of the two permutation functions, for every alphabet_size *)

\* one memmove or memcpy on the alphabet buffer: first index written, first
\* index read (-1 for the separate array temp_chars), and the byte count as
\* the expression has it before its conversion to size_t
move(dst, src, n) == [dst |-> dst, src |-> src, n |-> n]
\* alphabet[index] read or written on its own
touch(index) == [dst |-> index, src |-> index, n |-> 1]

\* the accesses of a permutation that found its character at pos, in
\* program order
permute_accesses(size, pos) ==
    <<touch(pos), move(pos, pos + 1, size - pos - 1), move(1, 0, size - 1), touch(0)>>
    \o (IF size > 1
        THEN <<touch(1), move(1, 2, size - 2), move(14, 13, size - 14), touch(13)>>
        ELSE <<>>)
    \o (IF size > 14
        THEN <<move(-1, 14, size - 14), move(14, 13, size - 13), move(14, -1, size - 14)>>
        ELSE <<>>)

\* "a", "ab", "abc", ...
SmallAlphabet(size) == [i \in 1..size |-> 96 + i]

permute_enter(name, size, ch) ==
    LET alphabet == SmallAlphabet(size)
        pos == find_char_position(ch, alphabet, size)
    IN /\ s_fn' = name
       /\ s_args' = [alphabet |-> alphabet, alphabet_size |-> size, ch |-> ch, pos |-> pos]
       /\ s_out' = IF pos = -1 THEN <<>> ELSE permute_accesses(size, pos)

chaocipher_permute_right_alphabet_call ==
    /\ s_fn = "none"
    /\ \E size \in 1..MaxAlphabetSize, ch \in 97..(97 + MaxAlphabetSize) :
           permute_enter("chaocipher_permute_right_alphabet", size, ch)
    /\ UNCHANGED sframe

chaocipher_permute_left_alphabet_call ==
    /\ s_fn = "none"
    /\ \E size \in 1..MaxAlphabetSize, ch \in 97..(97 + MaxAlphabetSize) :
           permute_enter("chaocipher_permute_left_alphabet", size, ch)
    /\ UNCHANGED sframe

PNext ==
    \/ chaocipher_permute_right_alphabet_call
    \/ chaocipher_permute_left_alphabet_call

SpecPermute == Init /\ [][PNext]_vars

\* C27: for every alphabet_size of 1 or more, sizes below 14 included, the
\* two permutation functions read and write only the indexes
\* 0..alphabet_size of the alphabet buffer, and no byte count of a move is
\* negative before it becomes a size_t
C27_MovesStayInsideAlphabet ==
    s_fn \in {"chaocipher_permute_right_alphabet", "chaocipher_permute_left_alphabet"}
        => \A i \in 1..Len(s_out) :
               LET a == s_out[i]
               IN /\ a.n >= 0
                  /\ a.n > 0 => /\ a.dst + a.n - 1 <= s_args.alphabet_size
                                /\ a.src + a.n - 1 <= s_args.alphabet_size

----------------------------------------------------------------------------
(* The numeric addition and checkerboard stages, called as vic_encrypt and
   vic_decrypt call them *)

\* the two built-in alphabets that use_alphabet selects
AdditionAlphabets == {DEFAULT_VIC_ALPHABET, TURKISH_VIC_ALPHABET}
\* 'A', 'I', '9' and the byte 0xC4 of the Turkish alphabet
AdditionChars == {65, 73, 57, 196}
AdditionStreams == SeqsUpTo(AdditionChars, MaxStreamLen) \ {<<>>}

\* the digits '0'..'5' that pairs_to_digits writes
FractionDigits == 48..53
DigitStreams == SeqsUpTo(FractionDigits, MaxStreamLen) \ {<<>>}
\* the checkerboards that vic_produce_checkerboard returns
StageCheckerboards ==
    {vic_produce_checkerboard(keyword, alphabet, language, BufSize).out :
        <<keyword, alphabet, language>> \in
            {x \in (BuilderKeywords \ {NULL}) \X BuilderAlphabets \X Languages :
                vic_produce_checkerboard(x[1], x[2], x[3], BufSize).ret = 0}}

StageArgs(text, numeric_key, alphabet, board, before) ==
    [text |-> text, numeric_key |-> numeric_key, alphabet |-> alphabet,
     checkerboard |-> board, before |-> before]

\* stage 5 of vic_encrypt in static mode
numeric_addition_encrypt_call ==
    /\ s_fn = "none"
    /\ \E text \in AdditionStreams, numeric_key \in ChainKeys, alphabet \in AdditionAlphabets :
        /\ s_args' = StageArgs(text, numeric_key, alphabet, <<>>, <<>>)
        /\ s_out' = numeric_addition(text, numeric_key, alphabet, TRUE, BufSize).out
    /\ s_fn' = "numeric_addition_encrypt"
    /\ UNCHANGED sframe

\* the first stage of vic_decrypt in static mode, on the stream just added
numeric_addition_decrypt_call ==
    /\ s_fn = "numeric_addition_encrypt"
    /\ s_args' = [s_args EXCEPT !.text = s_out, !.before = s_args.text]
    /\ s_out' = numeric_addition(s_out, s_args.numeric_key, s_args.alphabet, FALSE, BufSize).out
    /\ s_fn' = "numeric_addition_decrypt"
    /\ UNCHANGED sframe

\* stage 3 of vic_encrypt
digits_to_letters_call ==
    /\ s_fn = "none"
    /\ \E stream \in DigitStreams, board \in StageCheckerboards :
        /\ s_args' = StageArgs(stream, <<>>, <<>>, board, <<>>)
        /\ s_out' = digits_to_letters(stream, board, BufSize).out
    /\ s_fn' = "digits_to_letters"
    /\ UNCHANGED sframe

\* the matching stage of vic_decrypt, on the letters just emitted
letters_to_digits_call ==
    /\ s_fn = "digits_to_letters"
    /\ s_args' = [s_args EXCEPT !.text = s_out, !.before = s_args.text]
    /\ s_out' = letters_to_digits(s_out, s_args.checkerboard, BufSize).out
    /\ s_fn' = "letters_to_digits"
    /\ UNCHANGED sframe

SNext ==
    \/ numeric_addition_encrypt_call
    \/ numeric_addition_decrypt_call
    \/ digits_to_letters_call
    \/ letters_to_digits_call

SpecStages == Init /\ [][SNext]_vars

----------------------------------------------------------------------------
(* The two stages that write two bytes per step, on texts that fill the
   1024-byte buffers of vic_encrypt and vic_decrypt *)

Repeat(c, n) == [i \in 1..n |-> c]
LongLengths == ((BufSize \div 2) - MaxSlack)..((BufSize \div 2) + MaxSlack)
\* n times a character of the tables, then up to MaxSlack times another
LongTexts(first, second) ==
    {Repeat(c, n) \o Repeat(second, k) : c \in first, n \in LongLengths, k \in 0..MaxSlack}

\* entry of a stage: nothing written yet, p the 1-based position in text
long_enter(name, text, table) ==
    /\ s_fn' = name
    /\ s_args' = [text |-> text, table |-> table, p |-> 1, end |-> -1]
    /\ s_out' = <<>>

\* step 2 of vic_encrypt: 'A' and '9' are in the square, 'a' is not
substitute_to_polybius_long_call ==
    /\ s_fn = "none"
    /\ \E text \in LongTexts({65, 57}, 97) :
        long_enter("substitute_to_polybius", text,
                   vic_produce_polybius_square("standard", NULL, NULL, NULL, "english",
                                               BufSize).out)
    /\ UNCHANGED sframe

\* one turn of while (*p && pos < result_size - 1): pos is Len(s_out)
substitute_to_polybius_step ==
    /\ s_fn = "substitute_to_polybius"
    /\ s_args.p <= Len(s_args.text) /\ Len(s_out) < BufSize - 1
    /\ LET bytes == utf8_width(s_args.text[s_args.p])
           utf8_char == SubSeq(s_args.text, s_args.p,
                               Min(Len(s_args.text), s_args.p + bytes - 1))
           at == find_char_in_square(s_args.table, utf8_char)
       IN /\ s_out' = IF at.found THEN s_out \o <<vic_char(at.row), vic_char(at.col)>>
                      ELSE s_out
          /\ s_args' = [s_args EXCEPT !.p = s_args.p + bytes]
    /\ UNCHANGED s_fn
    /\ UNCHANGED sframe

\* result[pos] = '\0' after the loop
substitute_to_polybius_exit ==
    /\ s_fn = "substitute_to_polybius"
    /\ ~(s_args.p <= Len(s_args.text) /\ Len(s_out) < BufSize - 1)
    /\ s_args' = [s_args EXCEPT !.end = Len(s_out)]
    /\ s_fn' = "substitute_to_polybius_done"
    /\ UNCHANGED s_out
    /\ UNCHANGED sframe

\* step 4 of vic_decrypt: 'K' and 'U' have two-digit codes, 'A' has one digit
letters_to_digits_long_call ==
    /\ s_fn = "none"
    /\ \E text \in LongTexts({75, 85}, 65) :
        long_enter("letters_to_digits_long", text,
                   vic_produce_checkerboard(Ptr(<<75, 57>>), NULL, "english", BufSize).out)
    /\ UNCHANGED sframe

\* one turn of for (i = 0; letters[i] && pos < result_size - 1; i++)
letters_to_digits_step ==
    /\ s_fn = "letters_to_digits_long"
    /\ s_args.p <= Len(s_args.text) /\ Len(s_out) < BufSize - 1
    /\ s_out' = s_out \o letter_code(checkerboard_lines(s_args.table), s_args.text[s_args.p])
    /\ s_args' = [s_args EXCEPT !.p = s_args.p + 1]
    /\ UNCHANGED s_fn
    /\ UNCHANGED sframe

letters_to_digits_exit ==
    /\ s_fn = "letters_to_digits_long"
    /\ ~(s_args.p <= Len(s_args.text) /\ Len(s_out) < BufSize - 1)
    /\ s_args' = [s_args EXCEPT !.end = Len(s_out)]
    /\ s_fn' = "letters_to_digits_done"
    /\ UNCHANGED s_out
    /\ UNCHANGED sframe

LongNext ==
    \/ substitute_to_polybius_long_call
    \/ substitute_to_polybius_step
    \/ substitute_to_polybius_exit
    \/ letters_to_digits_long_call
    \/ letters_to_digits_step
    \/ letters_to_digits_exit

SpecBuffers == Init /\ [][LongNext]_vars

\* C24: no text length makes substitute_to_polybius or letters_to_digits
\* write outside its 1024-byte buffer: every byte of a step and the
\* terminator after the loop land at an index below 1024, also for texts of
\* 512 and more characters
C24_WritesInsideBuffer ==
    /\ s_fn \in {"substitute_to_polybius", "letters_to_digits_long"} => Len(s_out) <= BufSize
    /\ s_fn \in {"substitute_to_polybius_done", "letters_to_digits_done"}
           => (Len(s_out) <= BufSize /\ s_args.end < BufSize)

\* C29: substitution emits exactly two labels, one of six for the row and
\* one for the column, for every character of a plaintext whose n characters
\* all occur in the square, so that the ciphertext of vic_encrypt has between
\* n and 2n characters
C29_TwoLabelsPerCharacter ==
    (s_fn = "substitute_to_polybius_done"
        /\ elements(s_args.text) \subseteq elements(s_args.table))
        => /\ Len(s_out) = 2 * Len(s_args.text)
           /\ elements(s_out) \subseteq elements(VIC_LETTERS)

----------------------------------------------------------------------------
(* The key generators *)

\* srand() and rand() of the C library: the draws after srand(seed) are a
\* function of the seed alone. Two linear congruential generators stand for
\* the library's; next is the generator's state, and the value drawn
Generators == {[a |-> 25173, c |-> 13849, m |-> 32768], [a |-> 20021, c |-> 1, m |-> 32749]}
srand(gen, seed) == seed % gen.m
rand(gen, next) == (next * gen.a + gen.c) % gen.m

\* the generator's state after n draws
RECURSIVE rand_after(_, _, _)
rand_after(gen, next, n) ==
    IF n = 0 THEN next ELSE rand_after(gen, rand(gen, next), n - 1)

\* for (i = 0; i < length; i++) result[i] = base + (rand() % span)
RECURSIVE random_chars(_, _, _, _, _)
random_chars(gen, next, length, base, span) ==
    IF length = 0 THEN <<>>
    ELSE LET draw == rand(gen, next)
         IN <<base + (draw % span)>> \o random_chars(gen, draw, length - 1, base, span)

\* a generator that draws on without srand(time(NULL))
vic_generate_random_key_unseeded(length, buffer, result_size, now, libc) ==
    IF buffer = NULL \/ result_size = 0 \/ length >= result_size
    THEN [ret |-> -1, out |-> buffer, next |-> libc.next, seed |-> -1]
    ELSE [ret |-> 0, out |-> Ptr(random_chars(libc.gen, libc.next, length, 65, 26)),
          next |-> rand_after(libc.gen, libc.next, length), seed |-> now]

\* buffer is char* result, NULL or pointing at the caller's buffer; now is what time(NULL)
\* returns; libc is the library's generator and its state before the call
vic_generate_random_key(length, buffer, result_size, now, libc) ==
    IF buffer = NULL \/ result_size = 0 \/ length >= result_size
    THEN [ret |-> -1, out |-> buffer, next |-> libc.next, seed |-> -1]
    ELSE LET seeded == srand(libc.gen, now)
         IN [ret |-> 0, out |-> Ptr(random_chars(libc.gen, seeded, length, 65, 26)),
             next |-> rand_after(libc.gen, seeded, length), seed |-> now]

vic_generate_random_numeric_key(length, buffer, result_size, now, libc) ==
    IF buffer = NULL \/ result_size = 0 \/ length >= result_size
    THEN [ret |-> -1, out |-> buffer, next |-> libc.next, seed |-> -1]
    ELSE LET seeded == srand(libc.gen, now)
         IN [ret |-> 0, out |-> Ptr(random_chars(libc.gen, seeded, length, 48, 10)),
             next |-> rand_after(libc.gen, seeded, length), seed |-> now]

AlphabeticKeyNames == KeyNames \ {"numeric_key"}
\* the second the clock shows when the caller starts
StartTimes == {1762300800}

\* vic_generate_keys_for_text up to its test of the pointers and of key_size;
\* at most one of the four buffers is missing
vic_generate_keys_for_text_call ==
    /\ s_fn = "none"
    /\ \E lengths \in [KeyNames -> 0..MaxGenLen], key_size \in {0, MaxGenLen, MaxGenLen + 1},
          missing \in KeyNames \cup {"none"}, gen \in Generators, now \in StartTimes :
        LET buffers == [name \in KeyNames |->
                            IF name = missing THEN NULL ELSE Ptr(ResultBefore)]
            refused == (\E name \in KeyNames : buffers[name] = NULL) \/ key_size = 0
        IN /\ s_args' = [lengths |-> lengths, key_size |-> key_size, gen |-> gen,
                         next |-> 1, clock |-> now,
                         seeds |-> [name \in KeyNames |-> -1], ret |-> -1]
           /\ s_out' = buffers
           /\ s_fn' = IF refused THEN "vic_generate_keys_for_text_returned"
                      ELSE "polybius_key"
    /\ UNCHANGED sframe

\* one operand of the || chain: the clock may have moved on since the call
\* before; a call that fails ends the chain with -1
generate_key(name, then, numeric) ==
    /\ s_fn = name
    /\ \E now \in {s_args.clock, s_args.clock + 1} :
        LET libc == [gen |-> s_args.gen, next |-> s_args.next]
            r == IF numeric
                 THEN vic_generate_random_numeric_key(s_args.lengths[name], s_out[name],
                                                      s_args.key_size, now, libc)
                 ELSE vic_generate_random_key(s_args.lengths[name], s_out[name],
                                              s_args.key_size, now, libc)
        IN /\ s_out' = [s_out EXCEPT ![name] = r.out]
           /\ s_args' = [s_args EXCEPT !.next = r.next, !.clock = now,
                                       !.seeds[name] = r.seed,
                                       !.ret = IF r.ret = 0 /\ numeric THEN 0 ELSE -1]
           /\ s_fn' = IF r.ret # 0 \/ numeric THEN "vic_generate_keys_for_text_returned"
                      ELSE then
    /\ UNCHANGED sframe

generate_polybius_key == generate_key("polybius_key", "checkerboard_key", FALSE)
generate_checkerboard_key == generate_key("checkerboard_key", "transposition_key", FALSE)
generate_transposition_key == generate_key("transposition_key", "numeric_key", FALSE)
generate_numeric_key == generate_key("numeric_key", "none", TRUE)

KeysNext ==
    \/ vic_generate_keys_for_text_call
    \/ generate_polybius_key
    \/ generate_checkerboard_key
    \/ generate_transposition_key
    \/ generate_numeric_key

SpecKeys == Init /\ [][KeysNext]_vars

\* draw j of the generator after srand(seed)
nth_draw(gen, seed, j) == rand_after(gen, srand(gen, seed), j)

\* C30: vic_generate_keys_for_text returns three keys of letters A..Z and one
\* key of digits 0..9, each of the requested length; every call reseeds the
\* generator from the clock, so alphabetic keys of equal length made in the
\* same second are the same string, and digit j of the numeric key comes from
\* the same draw as letter j of an alphabetic key made in that second
C30_KeysOfOneSecondRepeat ==
    (s_fn = "vic_generate_keys_for_text_returned" /\ s_args.ret = 0)
        => /\ \A name \in KeyNames :
                /\ s_out[name] # NULL
                /\ Len(Deref(s_out[name])) = s_args.lengths[name]
                /\ s_args.seeds[name] \in {s_args.clock - i : i \in 0..3}
           /\ \A name \in AlphabeticKeyNames : elements(Deref(s_out[name])) \subseteq 65..90
           /\ elements(Deref(s_out["numeric_key"])) \subseteq 48..57
           /\ \A one, two \in AlphabeticKeyNames :
                (s_args.lengths[one] = s_args.lengths[two]
                    /\ s_args.seeds[one] = s_args.seeds[two])
                    => s_out[one] = s_out[two]
           /\ \A name \in AlphabeticKeyNames :
                s_args.seeds[name] = s_args.seeds["numeric_key"]
                    => \A j \in 1..Min(s_args.lengths[name], s_args.lengths["numeric_key"]) :
                          LET draw == nth_draw(s_args.gen, s_args.seeds[name], j)
                          IN /\ Deref(s_out[name])[j] = 65 + (draw % 26)
                             /\ Deref(s_out["numeric_key"])[j] = 48 + (draw % 10)

\* four keys of two or more characters made within one second: the three
\* alphabetic keys are one string
C30_Witness ==
    /\ s_fn = "vic_generate_keys_for_text_returned" /\ s_args.ret = 0
    /\ \A name \in KeyNames :
          s_args.lengths[name] >= 2 /\ s_args.seeds[name] = s_args.clock
    /\ s_out["polybius_key"] = s_out["checkerboard_key"]
    /\ s_out["checkerboard_key"] = s_out["transposition_key"]
    /\ Len(Deref(s_out["numeric_key"])) >= 2
    /\ s_out["polybius_key"] # Ptr(ResultBefore)

----------------------------------------------------------------------------
(* Properties of the pipeline *)

\* the text given to the encrypt call of the running round trip
plaintext == IF fn = "decrypt" THEN Deref(plain) ELSE args.text

\* the preconditions of the round trip over the default alphabet
round_trip_case ==
    /\ fn \in {"encrypt", "decrypt"}
    /\ ~null_key(args)
    /\ args.alphabet = NULL /\ args.language = "english"
    /\ args.square_type \in {"standard", "keyword"}
    /\ plaintext # <<>> /\ all_in(plaintext, DEFAULT_VIC_ALPHABET)
    /\ Deref(args.transposition_key) # <<>>
    /\ Deref(args.numeric_key) # <<>> /\ all_digits(Deref(args.numeric_key))
    /\ args.transposition_passes \in 1..3

\* C1: in static mode, over the default alphabet, with non-empty keys, an
\* all-digit numeric key, square type standard or keyword and 1..3 passes,
\* vic_encrypt succeeds and vic_decrypt of its output with the same
\* parameters succeeds and returns exactly the plaintext
C1_StaticRoundTrip ==
    (round_trip_case /\ ~args.use_chain_addition)
        => /\ pc # "crashed"
           /\ pc = "returned" => ret = 0
           /\ (pc = "returned" /\ fn = "decrypt") => result = plaintext

C1_Witness ==
    /\ round_trip_case /\ ~args.use_chain_addition
    /\ pc = "returned" /\ fn = "decrypt" /\ ret = 0
    /\ Len(plaintext) = 2 /\ args.transposition_passes = 3
    /\ args.square_type = "keyword"
    /\ result = plaintext /\ args.text # plaintext

\* C2: with chain addition on, vic_decrypt of the output of vic_encrypt with
\* the same keys returns the original plaintext
C2_ChainRoundTrip ==
    (round_trip_case /\ args.use_chain_addition /\ pc = "returned" /\ fn = "decrypt")
        => (ret = 0 /\ result = plaintext)

\* C5: vic_encrypt and vic_decrypt return an error, and never divide by
\* zero, when the numeric key is empty or contains a non-digit character
C5_NumericKeyRejected ==
    (fn \in {"encrypt", "decrypt"} /\ ~null_key(args)
     /\ (Deref(args.numeric_key) = <<>> \/ ~all_digits(Deref(args.numeric_key))))
        => /\ pc # "crashed"
           /\ pc = "returned" => ret = -1

\* C6: vic_encrypt fails when the plaintext contains a character that is
\* absent from the constructed Polybius square
C6_AbsentCharacterRejected ==
    (fn = "encrypt" /\ pc = "returned"
     /\ \E i \in 1..Len(args.text) :
            ~find_char_in_square(polybius_square, <<args.text[i]>>).found)
        => ret = -1

\* C10: whenever vic_encrypt or vic_decrypt returns -1 the caller's result
\* buffer holds what it held before the call
C10_ResultUntouchedOnError ==
    (pc = "returned" /\ ret = -1) => result = ResultBefore

\* a decrypt call whose first stage produced letters and whose transposition
\* stage then failed
C10_Witness ==
    /\ pc = "returned" /\ ret = -1 /\ fn = "decrypt"
    /\ letters # <<>> /\ Deref(args.transposition_key) = <<>>
    /\ result = ResultBefore

\* n transposition passes in a row, stopping at the first that fails
RECURSIVE passes_in_a_row(_, _, _, _)
passes_in_a_row(stream, key, n, encrypt) ==
    IF n <= 0 THEN [ret |-> 0, out |-> stream]
    ELSE LET r == columnar_transposition(stream, key, encrypt, BufSize)
         IN IF r.ret # 0 THEN [ret |-> -1, out |-> stream]
            ELSE passes_in_a_row(r.out, key, n - 1, encrypt)

\* the square and the checkerboard of a call's keys and configuration
square_of(a) ==
    vic_produce_polybius_square(a.square_type, a.polybius_key,
        Ptr(use_alphabet(a.alphabet, a.language)), a.mono_params, a.language, BufSize)
checkerboard_of(a) ==
    vic_produce_checkerboard(a.checkerboard_key, Ptr(use_alphabet(a.alphabet, a.language)),
        a.language, BufSize)

\* substitution, remapping, all passes, addition: each on the output of the
\* one before
encrypt_in_order(a) ==
    LET alphabet == use_alphabet(a.alphabet, a.language)
        fractionated == pairs_to_digits(
                            substitute_to_polybius(a.text, square_of(a).out, BufSize).out,
                            BufSize).out
        remapped == digits_to_letters(fractionated, checkerboard_of(a).out, BufSize).out
        moved == passes_in_a_row(remapped, a.transposition_key, a.transposition_passes, TRUE)
        added == IF a.use_chain_addition
                 THEN chain_addition_encrypt(moved.out, Deref(a.numeric_key), alphabet, BufSize)
                 ELSE numeric_addition(moved.out, Deref(a.numeric_key), alphabet, TRUE, BufSize)
    IN [ok |-> square_of(a).ret = 0 /\ checkerboard_of(a).ret = 0 /\ moved.ret = 0,
        out |-> added.out]

\* addition, all passes, remapping, substitution, inverted in that order
decrypt_in_reverse(a) ==
    LET alphabet == use_alphabet(a.alphabet, a.language)
        subtracted == IF a.use_chain_addition
                      THEN chain_addition_decrypt(a.text, Deref(a.numeric_key), alphabet, BufSize)
                      ELSE numeric_addition(a.text, Deref(a.numeric_key), alphabet, FALSE, BufSize)
        moved == passes_in_a_row(subtracted.out, a.transposition_key,
                                 a.transposition_passes, FALSE)
        coded == letters_to_digits(moved.out, checkerboard_of(a).out, BufSize).out
        paired == digits_to_pairs(coded, BufSize).out
    IN [ok |-> moved.ret = 0 /\ checkerboard_of(a).ret = 0 /\ square_of(a).ret = 0,
        out |-> substitute_from_polybius(paired, square_of(a).out, BufSize).out]

\* a call that got past its NULL tests and whose numeric key is not empty
staged_call ==
    /\ fn \in {"encrypt", "decrypt"} /\ pc = "returned"
    /\ ~null_key(args) /\ Deref(args.numeric_key) # <<>>

\* a returned call succeeded exactly when every stage did, and its output is
\* that of the stages in the stated order
stages_applied_in_order ==
    staged_call =>
        LET r == IF fn = "encrypt" THEN encrypt_in_order(args) ELSE decrypt_in_reverse(args)
        IN /\ ret = 0 <=> r.ok
           /\ ret = 0 => result = r.out

\* a decrypt call rebuilds the square and the checkerboard that the encrypt
\* call before it built
same_tables_rebuilt ==
    (fn = "decrypt" /\ fn' = "decrypt")
        => /\ polybius_square # <<>> => polybius_square' = polybius_square
           /\ checkerboard # <<>> => checkerboard' = checkerboard

\* C23: vic_encrypt runs substitution and fractionation, checkerboard
\* remapping, all transposition passes and numeric addition in this order,
\* each stage after the previous one succeeded; vic_decrypt runs the inverse
\* stages in the reverse order with the same pass count, and with the square
\* and checkerboard of the same keys and configuration
C23_StagesInOrderAndReversed ==
    [](stages_applied_in_order) /\ [][same_tables_rebuilt]_vars

\* a chain-mode decrypt with two passes and a keyword square that came back
C23_Witness ==
    /\ staged_call /\ fn = "decrypt" /\ ret = 0
    /\ args.use_chain_addition /\ args.transposition_passes = 2
    /\ args.square_type = "keyword" /\ args.alphabet = NULL
    /\ result = decrypt_in_reverse(args).out /\ Len(result) = 2

\* no character of the plaintext is a cell of the square of the call (the
\* empty plaintext is such a text)
nothing_in_square ==
    \A i \in 1..Len(args.text) : args.text[i] \notin elements(square_of(args).out)

\* C25: with a pass count of at least 1, vic_encrypt returns -1 for the empty
\* plaintext and for a plaintext none of whose characters is in the square,
\* and so never returns success with an empty ciphertext
C25_EmptyStreamRejected ==
    (fn = "encrypt" /\ pc = "returned" /\ args.transposition_passes >= 1 /\ nothing_in_square)
        => (ret = -1 /\ result = ResultBefore)

\* the lower-case plaintext "e" with a square, a checkerboard and keys that
\* are all in order: only the transposition stage can have refused
C25_Witness ==
    /\ fn = "encrypt" /\ pc = "returned" /\ ret = -1
    /\ args.text = <<101>> /\ nothing_in_square
    /\ args.transposition_passes = 1
    /\ ~null_key(args) /\ Deref(args.transposition_key) # <<>>
    /\ square_of(args).ret = 0 /\ checkerboard_of(args).ret = 0
    /\ transposed = <<>> /\ checkerboard # <<>>

\* every character of the plaintext is a cell of the square of the call
all_in_square ==
    \A i \in 1..Len(args.text) : args.text[i] \in elements(square_of(args).out)

\* a plaintext that fits the local buffers: the streams of a successful
\* vic_encrypt keep the lengths the stages give them
short_text_length_kept ==
    (fn = "encrypt" /\ pc = "returned" /\ ret = 0 /\ all_in_square)
        => LET n == Len(args.text)
           IN /\ Len(digits) = 2 * n
              /\ elements(digits) \subseteq 48..53
              /\ Len(letters) >= n /\ Len(letters) <= 2 * n
              /\ Len(transposed) = Len(letters)
              /\ Len(result) = Len(letters)

----------------------------------------------------------------------------
(* Properties of the builders *)

\* the UTF-8 characters of a line, each as its bytes
RECURSIVE line_cells(_, _)
line_cells(line, p) ==
    IF p > Len(line) THEN <<>>
    ELSE <<SubSeq(line, p, Min(Len(line), p + utf8_width(line[p]) - 1))>>
         \o line_cells(line, p + utf8_width(line[p]))

\* the rows of a grid: what stands between its newlines
RECURSIVE grid_rows(_, _, _)
grid_rows(s, p, current) ==
    IF p > Len(s) THEN <<current>>
    ELSE IF s[p] = 10 THEN <<current>> \o grid_rows(s, p + 1, <<>>)
    ELSE grid_rows(s, p + 1, Append(current, s[p]))

cells_of(grid) == line_cells(SelectSeq(grid, LAMBDA c : c # 10), 1)

builder_alphabet == use_alphabet(b_args.alphabet, b_args.language)

\* C7: for every supported square type and a duplicate-free alphabet of 36
\* characters, a successful vic_produce_polybius_square yields 6 rows of 6
\* cells that hold each alphabet character exactly once
C7_SquareIsBijection ==
    (b_fn = "square" /\ b_ret = 0
     /\ Len(line_cells(builder_alphabet, 1)) = 36
     /\ Cardinality(elements(line_cells(builder_alphabet, 1))) = 36)
        => LET rows == grid_rows(b_out, 1, <<>>)
           IN /\ Len(rows) = 6
              /\ \A r \in 1..Len(rows) : Len(line_cells(rows[r], 1)) = 6
              /\ elements(cells_of(b_out)) = elements(line_cells(builder_alphabet, 1))

\* C8: in every checkerboard that vic_produce_checkerboard returns, no
\* character is assigned the one-digit code 1 or the one-digit code 2
C8_PrefixDigitsNotSingleCodes ==
    (b_fn = "checkerboard" /\ b_ret = 0)
        => \A i \in 1..Len(b_out) :
               letter_code(checkerboard_lines(b_out), b_out[i]) \notin {<<49>>, <<50>>}

\* C9: an alphabet of fewer than 36 (30) characters makes the square
\* (checkerboard) builder fail and leave the buffer alone, and no builder
\* returns success with fewer than 36 (30) cells filled
C9_ShortAlphabetRejected ==
    /\ (b_fn = "square" /\ utf8_strlen(builder_alphabet) < 36)
           => (b_ret = -1 /\ b_out = b_before)
    /\ (b_fn = "checkerboard" /\ b_args.checkerboard_key # NULL
        /\ utf8_strlen(builder_alphabet) < 30)
           => (b_ret = -1 /\ b_out = b_before)
    /\ (b_fn = "square" /\ b_ret = 0) => Len(cells_of(b_out)) >= 36
    /\ (b_fn = "checkerboard" /\ b_ret = 0) => Len(cells_of(b_out)) >= 30

\* the alphabet character that ch matches regardless of case, <<>> if none
fold_to_alphabet(ch, alpha) ==
    IF ch \in elements(alpha) THEN ch
    ELSE IF Len(ch) = 1 /\ <<toupper(ch[1])>> \in elements(alpha) THEN <<toupper(ch[1])>>
    ELSE IF Len(ch) = 1 /\ <<tolower(ch[1])>> \in elements(alpha) THEN <<tolower(ch[1])>>
    ELSE <<>>

\* the characters of chars that are not in seen, each once, in order
RECURSIVE first_occurrences(_, _)
first_occurrences(chars, seen) ==
    IF chars = <<>> THEN <<>>
    ELSE IF Head(chars) = <<>> \/ Head(chars) \in elements(seen)
         THEN first_occurrences(Tail(chars), seen)
         ELSE <<Head(chars)>> \o first_occurrences(Tail(chars), Append(seen, Head(chars)))

\* the keyword of a "keyword" square: "SECRET" stands in for a missing one
square_keyword ==
    IF b_args.polybius_key # NULL THEN Deref(b_args.polybius_key)
    ELSE <<83, 69, 67, 82, 69, 84>>

keyed_alphabet ==
    LET alpha == line_cells(builder_alphabet, 1)
        keyword_cells == line_cells(square_keyword, 1)
        folded == [i \in 1..Len(keyword_cells) |-> fold_to_alphabet(keyword_cells[i], alpha)]
        keyed == first_occurrences(folded, <<>>)
    IN keyed \o first_occurrences(alpha, keyed)

\* C20: a square of type "keyword", read row by row, is the keyword's letters
\* that occur in the alphabet, matched regardless of case and each kept at
\* its first occurrence, followed by the other alphabet characters in
\* alphabet order
C20_KeywordSquareIsKeyedAlphabet ==
    (b_fn = "square" /\ b_args.square_type = "keyword" /\ b_ret = 0)
        => cells_of(b_out) = Take(keyed_alphabet, 36)

\* the keyword's letters, then the other alphabet characters, for a checkerboard
checkerboard_keyed_alphabet ==
    LET alpha == line_cells(builder_alphabet, 1)
        keyword_cells == line_cells(Deref(b_args.checkerboard_key), 1)
        folded == [i \in 1..Len(keyword_cells) |-> fold_to_alphabet(keyword_cells[i], alpha)]
        keyed == first_occurrences(folded, <<>>)
    IN keyed \o first_occurrences(alpha, keyed)

\* C21: a checkerboard that vic_produce_checkerboard returns has three rows
\* of 10 cells holding 30 distinct alphabet characters: the keyword's distinct
\* letters first, then the other alphabet characters in alphabet order
C21_CheckerboardIsKeyedAlphabet ==
    (b_fn = "checkerboard" /\ b_ret = 0)
        => LET rows == grid_rows(b_out, 1, <<>>)
           IN /\ Len(rows) = 3
              /\ \A r \in 1..Len(rows) : Len(line_cells(rows[r], 1)) = 10
              /\ Cardinality(elements(cells_of(b_out))) = 30
              /\ cells_of(b_out) = Take(checkerboard_keyed_alphabet, 30)

----------------------------------------------------------------------------
(* Properties of the numeric addition and checkerboard stages *)

\* 0-based alphabet index of the byte c, -1 when the alphabet lacks it
alphabet_index(alphabet, c) == strchr(alphabet, c) - 1

\* the key digit that applies at the 1-based position p
digit_at(numeric_key, p) == numeric_key[((p - 1) % Len(numeric_key)) + 1] - 48

\* C18: in static mode numeric_addition maps the character at position i with
\* alphabet index x to the alphabet character at index (x + k) mod |alphabet|
\* on encrypt and (x - k) mod |alphabet| on decrypt, k the key digit at
\* position i mod |key|; and decrypt undoes encrypt position by position
C18_AdditionShiftsAndUndoes ==
    LET n == Len(s_args.alphabet)
        mapped(sign) ==
            \A p \in 1..Len(s_args.text) :
                LET x == alphabet_index(s_args.alphabet, s_args.text[p])
                    k == digit_at(s_args.numeric_key, p)
                IN x >= 0 => /\ p <= Len(s_out)
                             /\ s_out[p] = s_args.alphabet[((x + sign * k + n) % n) + 1]
    IN /\ s_fn = "numeric_addition_encrypt" => mapped(1)
       /\ s_fn = "numeric_addition_decrypt" => (mapped(-1) /\ s_out = s_args.before)

\* the letters of a greedy left-to-right parse: two digits for a code that
\* starts with 1 or 2 and has a digit after it, one digit otherwise
RECURSIVE greedy_letters(_, _, _)
greedy_letters(stream, lines, i) ==
    IF i > Len(stream) THEN <<>>
    ELSE IF stream[i] \in {49, 50} /\ i < Len(stream)
         THEN <<lines[stream[i] - 47][stream[i + 1] - 47]>> \o greedy_letters(stream, lines, i + 2)
         ELSE <<lines[1][stream[i] - 47]>> \o greedy_letters(stream, lines, i + 1)

\* C19: digits_to_letters parses a stream over the digits 0..5 greedily from
\* the left, two digits for a code that starts with 1 or 2 and one digit
\* otherwise, a letter for every step, and letters_to_digits of the emitted
\* letters gives the stream back
C19_GreedyParseRoundTrip ==
    /\ s_fn = "digits_to_letters"
           => s_out = greedy_letters(s_args.text, grid_rows(s_args.checkerboard, 1, <<>>), 1)
    /\ s_fn = "letters_to_digits" => s_out = s_args.before

\* "0131" parsed as 0, 13, 1 and coded back
C19_Witness ==
    /\ s_fn = "letters_to_digits"
    /\ s_args.before = <<48, 49, 51, 49>>
    /\ Len(s_args.text) = 3
    /\ s_out = <<48, 49, 51, 49>>

====
